---- MODULE Spec2Model ----
(***************************************************************************)
(* Connection lifecycle and session relay of the MCP OpenAI Atlassian      *)
(* proxy.                                                                  *)
(*                                                                         *)
(*   Spec        the HTTP server of src/src/servers/httpServer.ts: the     *)
(*               session registry, the idle-close timer and the upstream   *)
(*               manager (ensureUpstream / closeUpstream), with the tool   *)
(*               handlers of src/src/servers/mcpServerFactory.ts.          *)
(*                                                                         *)
(*   SpecClient  one reconnecting UpstreamClient of                       *)
(*               src/unnamed/part_017 (lines 189-401): connect, the        *)
(*               heartbeat, scheduleReconnect, callTool and close.         *)
(*                                                                         *)
(*   SpecUp      that client held by the manager while sessions open and   *)
(*               close within the idle grace period, with an upstream      *)
(*               that accepts connections in the end (fair).               *)
(*                                                                         *)
(*   SpecBackoff the delays backoff() computes (part_017:364-368).         *)
(*                                                                         *)
(*   SpecHandler the search and fetch tool handlers of                     *)
(*               src/src/servers/mcpServerFactory.ts with their delegates. *)
(*                                                                         *)
(*   SpecTransport  the choice of the client transport from the upstream   *)
(*               URL (part_017:239-260).                                   *)
(*                                                                         *)
(*   SpecPrefix  the path prefix and submission address announced on a     *)
(*               new stream (src/unnamed/part_022, httpServer.ts:61-67).   *)
(*                                                                         *)
(*   SpecHealth  GET /healthz beside the sessions, the manager and the     *)
(*               client (httpServer.ts:33).                                *)
(*                                                                         *)
(*   SpecRpc     the JSON-RPC client of src/src/remote/upstreamClient.ts:  *)
(*               connectIfNeeded and its connect loop, the event stream,   *)
(*               the pending requests and their timeouts.                  *)
(*                                                                         *)
(*   SpecStale   the reconnecting client with tool calls and transport     *)
(*               events only, followed one connection further.             *)
(*                                                                         *)
(*   SpecShim    the /sse and /messages handlers of                        *)
(*               src/src/servers/transparentShim.ts.                       *)
(*                                                                         *)
(*   SpecOAuth   the login and callback handlers of                        *)
(*               src/src/servers/oauth2.ts.                                *)
(*                                                                         *)
(* Node runs every event-loop task (an HTTP request, a socket 'close'      *)
(* event, a timer callback, the settlement of an I/O promise) to           *)
(* completion, together with the promise continuations it makes runnable,  *)
(* before it starts the next task.  One action below is one such task: it  *)
(* runs a handler from its entry, or from the I/O await it was suspended   *)
(* at, to its next I/O await.                                              *)
(***************************************************************************)
EXTENDS Integers, FiniteSets, Sequences, TLC

(* ------------------------------ bounds -------------------------------- *)

\* Streams opened on /sse over a run.
MaxSessions == 2
\* UpstreamClient objects constructed by the manager over a run.
MaxClients == 2
\* Requests to /mcp over a run.
MaxHttp == 1
\* Tool calls dispatched over a run.
MaxCalls == 2

(* --------------------------- HTTP server state ------------------------- *)

VARIABLES
    sessions,        \* keys of the `sessions` record (httpServer.ts:35)
    idleTimer,       \* TRUE iff `idleTimer` holds an armed timeout (:36)
    upstreamClient,  \* `upstreamClient` (:94); NoClient is null
    upstreamPromise, \* `upstreamPromise` (:95); NoClient is null, otherwise
                     \* the promise of the creation of that client
    creating,        \* clients whose createUpstreamClient() has not settled
    made,            \* UpstreamClient objects constructed so far
    closeCalls,      \* per client, the number of close() calls received
    streams,         \* environment: ids whose response stream is still open
    issued,          \* session ids issued so far (transport.sessionId)
    sseWait,         \* handleSSE invocations suspended at :126, id -> promise
    httpReqs,        \* /mcp requests received so far
    httpWait,        \* handleStreamableHTTP suspended at :132, req -> promise
    httpDone,        \* per finished ensureUpstream() of /mcp, req -> client
    bound,           \* per started transport, id -> [server, client]
    serverTransport, \* per McpServer, the transport it is connected to
    calls,           \* tool calls in flight, id -> [from, server, client,
                     \* alone: no other session was registered when the
                     \* request arrived]
    callSeq,         \* tool calls dispatched so far
    deliveries,      \* results written to a stream: [call, from, to, alone]
    settled,         \* per client, the ensureUpstream() calls that were
                     \* pending when its creation settled
    lastPost         \* the last POST /messages: what it named and got

httpVars == <<sessions, idleTimer, upstreamClient, upstreamPromise, creating,
              made, closeCalls, streams, issued, sseWait, httpReqs, httpWait,
              httpDone, bound, serverTransport, calls, callSeq, deliveries,
              settled, lastPost>>

\* The UpstreamClient object (part_017:189-401), the connections it opened
\* and the invocations of its methods that are suspended at an await.
VARIABLE uc

clientVars == <<uc>>

\* What the process does beside the session relay and its upstream client.
VARIABLES
    handler,         \* invocations of the tool handlers of
                     \* mcpServerFactory.ts:25-35 and :45-55, by name
    health,          \* responses GET /healthz has given (httpServer.ts:33)
    announced,       \* the last openSession: the request it got and the
                     \* prefix and submission address it resolved (:63-66)
    rpc,             \* the JSON-RPC UpstreamClient of
                     \* src/src/remote/upstreamClient.ts
    shim,            \* the transparent shim of
                     \* src/src/servers/transparentShim.ts
    oauth            \* the OAuth state store and callbacks of
                     \* src/src/servers/oauth2.ts

moreVars == <<shim, oauth>>

otherVars == <<handler, health, announced, rpc, moreVars>>

vars == <<httpVars, clientVars, otherVars>>

NoClient == 0
ClientIds == 1..MaxClients

\* transport.sessionId is a random UUID: every stream gets a fresh name.
SidName(n) == "sid" \o ToString(n)
SessionIds == {SidName(n) : n \in 1..MaxSessions}

\* The requests to /mcp, named in order of arrival.
ReqName(n) == "req" \o ToString(n)

\* Names every JavaScript object inherits from Object.prototype; the
\* `sessions` record is a plain object literal (httpServer.ts:35).
ObjectPrototypeKeys == {"constructor"}

\* The values a session parameter of a POST /messages can have: an issued
\* or not yet issued id, an inherited property name, or the empty string.
RequestSids == SessionIds \cup ObjectPrototypeKeys \cup {""}

\* A query parameter that is not given.
Absent == "<absent>"

\* The query strings of the POST /messages requests: one of the parameters
\* sessionId, session_id and session-id, or none, or an empty sessionId
\* beside a session_id.
Queries ==
    {[sessionId |-> v, session_id |-> Absent, session_dash_id |-> Absent] :
        v \in RequestSids \cup {Absent}}
    \cup {[sessionId |-> Absent, session_id |-> v, session_dash_id |-> Absent] :
        v \in RequestSids}
    \cup {[sessionId |-> Absent, session_id |-> Absent, session_dash_id |-> v] :
        v \in RequestSids}
    \cup {[sessionId |-> "", session_id |-> v, session_dash_id |-> Absent] :
        v \in SessionIds}

(* ------------------------------ helpers ------------------------------- *)

\* f with key k set to v, k added to the domain when absent.
Put(f, k, v) == [x \in DOMAIN f \cup {k} |-> IF x = k THEN v ELSE f[x]]

\* f without the keys in ks.
Drop(f, ks) == [x \in DOMAIN f \ ks |-> f[x]]

(* ------------------------- cancelIdleTimer ---------------------------- *)

\* A cancelIdleTimer that leaves an armed timer armed.
cancelIdleTimer_Leaves(timer) == timer

\* httpServer.ts:39-44: the timer afterwards.
cancelIdleTimer(timer) == FALSE

(* ------------------------- scheduleIdleClose -------------------------- *)

\* A scheduleIdleClose that does not look at the registry.
scheduleIdleClose_Always(timer, sess) == TRUE

\* A scheduleIdleClose whose test of the registry is inverted.
scheduleIdleClose_Inverted(timer, sess) ==
    IF timer \/ sess = {} THEN timer ELSE TRUE

\* httpServer.ts:46-48: arms the timer unless one is armed or a session is
\* registered; the value is the timer afterwards.
scheduleIdleClose(timer, sess) ==
    IF timer \/ sess # {} THEN timer ELSE TRUE

\* httpServer.ts:50: the fired callback goes on to closeUpstream() only with
\* an empty registry.
idleCallbackCloses(sess) == sess = {}

(* --------------------------- closeUpstream ---------------------------- *)

\* httpServer.ts:114: close() is called on the held client, if any.
closeUpstreamCalls(client, counts) ==
    IF client = NoClient THEN counts
    ELSE [counts EXCEPT ![client] = @ + 1]

\* A closeUpstream that keeps its reference (no `finally`).
closeUpstreamRef_Keeps(client) == client

\* httpServer.ts:117-119: the reference afterwards.  UpstreamClient.close()
\* awaits transport.close() and client.close() of the MCP SDK, which do no
\* I/O wait, so the `finally` runs in the task that called close().
closeUpstreamRef(client) == NoClient

(* --------------------------- ensureUpstream --------------------------- *)

\* An ensureUpstream that does not look at the creation in flight.
ensureUpstreamPath_NoMemo(client, promise) ==
    IF client # NoClient THEN "held" ELSE "create"

\* httpServer.ts:98-100: which way a call to ensureUpstream() goes.
ensureUpstreamPath(client, promise) ==
    IF client # NoClient THEN "held"
    ELSE IF promise # NoClient THEN "join"
    ELSE "create"

\* The promise a caller that does not get the held client awaits.
ensureUpstreamAwaited(path) ==
    IF path = "join" THEN upstreamPromise ELSE made + 1

\* httpServer.ts:97-106 up to the await: the manager's state after a call
\* that takes `path`.  `create` constructs a client and starts its connect()
\* (createUpstreamClient, part_017:403-414).
ensureUpstreamStart(path) ==
    IF path = "create"
    THEN /\ made < MaxClients
         /\ made' = made + 1
         /\ creating' = creating \cup {made + 1}
         /\ upstreamPromise' = made + 1
    ELSE UNCHANGED <<made, creating, upstreamPromise>>

(* ------------------------------ sessions ------------------------------ *)

\* httpServer.ts:67: the registry after openSession registers `sid`.
openSessionRegistry(sess, sid) == sess \cup {sid}

\* An onSessionClose that leaves the entry in place.
onSessionCloseRegistry_Keeps(sess, sid) == sess

\* httpServer.ts:89: the registry after onSessionClose deletes `sid`.
onSessionCloseRegistry(sess, sid) == sess \ {sid}

\* One McpServer for all sessions, as in the first jira shim
\* (part_017:22 and :116).
buildMcpServer_Shared(sid) == "shared"

\* httpServer.ts:127, mcpServerFactory.ts:15-16: every handleSSE builds a
\* McpServer of its own; it is named after the session it is built for.
buildMcpServer(sid) == sid

\* httpServer.ts:127-128: the handler of session `sid` got `client` from
\* ensureUpstream(), builds its server and connects it to the transport.
\* server.connect(transport) starts the transport, which announces the
\* submission address on the stream.
Bind(b, sid, client) ==
    Put(b, sid, [server |-> buildMcpServer(sid), client |-> client])

ConnectServer(st, sid) == Put(st, buildMcpServer(sid), sid)

\* All of `sids` bound to `client`, one after the other.
RECURSIVE BindAll(_, _, _)
BindAll(b, sids, client) ==
    IF sids = {} THEN b
    ELSE LET s == CHOOSE x \in sids : TRUE
         IN  BindAll(Bind(b, s, client), sids \ {s}, client)

RECURSIVE ConnectAll(_, _)
ConnectAll(st, sids) ==
    IF sids = {} THEN st
    ELSE LET s == CHOOSE x \in sids : TRUE
         IN  ConnectAll(ConnectServer(st, s), sids \ {s})

(* ------------------------------ handleSSE ----------------------------- *)

\* httpServer.ts:122-129 with openSession (:61-80), from the request to the
\* await of ensureUpstream(), and on to server.connect() when the client is
\* already held.
handleSSE ==
    /\ issued < MaxSessions
    /\ LET sid  == SidName(issued + 1)
           path == ensureUpstreamPath(upstreamClient, upstreamPromise)
       IN  /\ issued' = issued + 1
           /\ idleTimer' = cancelIdleTimer(idleTimer)
           /\ sessions' = openSessionRegistry(sessions, sid)
           /\ streams' = streams \cup {sid}
           /\ ensureUpstreamStart(path)
           /\ IF path = "held"
              THEN /\ bound' = Bind(bound, sid, upstreamClient)
                   /\ serverTransport' = ConnectServer(serverTransport, sid)
                   /\ UNCHANGED sseWait
              ELSE /\ sseWait' = Put(sseWait, sid, ensureUpstreamAwaited(path))
                   /\ UNCHANGED <<bound, serverTransport>>
    /\ UNCHANGED <<upstreamClient, closeCalls, httpReqs, httpWait, httpDone,
                   calls, callSeq, deliveries, settled, lastPost>>
    /\ UNCHANGED <<clientVars, otherVars>>

(* ---------------------------- onSessionClose -------------------------- *)

\* httpServer.ts:125 and :87-92: the 'close' event of the response of `sid`.
onSessionClose(sid) ==
    /\ sid \in streams
    /\ streams' = streams \ {sid}
    /\ sessions' = onSessionCloseRegistry(sessions, sid)
    /\ idleTimer' = scheduleIdleClose(idleTimer, sessions')
    /\ UNCHANGED <<upstreamClient, upstreamPromise, creating, made, closeCalls,
                   issued, sseWait, httpReqs, httpWait, httpDone, bound,
                   serverTransport, calls, callSeq, deliveries, settled, lastPost>>
    /\ UNCHANGED <<clientVars, otherVars>>

(* ------------------------- the idle timer fires ----------------------- *)

\* httpServer.ts:48-57: the timeout callback, with closeUpstream (:112-120).
idleTimerFires ==
    /\ idleTimer
    /\ idleTimer' = FALSE
    /\ IF idleCallbackCloses(sessions)
       THEN /\ closeCalls' = closeUpstreamCalls(upstreamClient, closeCalls)
            /\ upstreamClient' = closeUpstreamRef(upstreamClient)
       ELSE UNCHANGED <<closeCalls, upstreamClient>>
    /\ UNCHANGED <<sessions, upstreamPromise, creating, made, streams, issued,
                   sseWait, httpReqs, httpWait, httpDone, bound,
                   serverTransport, calls, callSeq, deliveries, settled, lastPost>>
    /\ UNCHANGED <<clientVars, otherVars>>

(* ----------------------- the creation settles ------------------------- *)

\* httpServer.ts:101-103 and :107-109, then :127-128 for every handleSSE and
\* :133-157 for every handleStreamableHTTP that awaited this creation:
\* connect() of client `u` returned (part_017:412-413).
createResolved(u) ==
    /\ u \in creating
    /\ creating' = creating \ {u}
    /\ upstreamClient' = u
    /\ upstreamPromise' = NoClient
    /\ LET ss == {s \in DOMAIN sseWait : sseWait[s] = u}
           hs == {h \in DOMAIN httpWait : httpWait[h] = u}
       IN  /\ sseWait' = Drop(sseWait, ss)
           /\ bound' = BindAll(bound, ss, u)
           /\ serverTransport' = ConnectAll(serverTransport, ss)
           /\ httpWait' = Drop(httpWait, hs)
           /\ httpDone' = [h \in DOMAIN httpDone \cup hs |->
                             IF h \in hs THEN u ELSE httpDone[h]]
           /\ settled' = [settled EXCEPT ![u] = Cardinality(ss) + Cardinality(hs)]
    /\ UNCHANGED <<sessions, idleTimer, made, closeCalls, streams, issued,
                   httpReqs, calls, callSeq, deliveries, lastPost>>
    /\ UNCHANGED <<clientVars, otherVars>>

(* ------------------------- handleStreamableHTTP ----------------------- *)

\* httpServer.ts:131-158: a request to /mcp that is not an SSE request.
handleStreamableHTTP ==
    /\ httpReqs < MaxHttp
    /\ LET req  == ReqName(httpReqs + 1)
           path == ensureUpstreamPath(upstreamClient, upstreamPromise)
       IN  /\ httpReqs' = httpReqs + 1
           /\ ensureUpstreamStart(path)
           /\ IF path = "held"
              THEN /\ httpDone' = Put(httpDone, req, upstreamClient)
                   /\ UNCHANGED httpWait
              ELSE /\ httpWait' = Put(httpWait, req, ensureUpstreamAwaited(path))
                   /\ UNCHANGED httpDone
    /\ UNCHANGED <<sessions, idleTimer, upstreamClient, closeCalls, streams,
                   issued, sseWait, bound, serverTransport, calls, callSeq,
                   deliveries, settled, lastPost>>
    /\ UNCHANGED <<clientVars, otherVars>>

(* ---------------------------- POST /messages -------------------------- *)

\* httpServer.ts:160-163: the identifier read from the query string: the
\* first of sessionId, session_id and session-id that is given (`??` skips
\* only a missing one), and '' when none is.
resolveSession(q) ==
    IF q.sessionId # Absent THEN q.sessionId
    ELSE IF q.session_id # Absent THEN q.session_id
    ELSE IF q.session_dash_id # Absent THEN q.session_dash_id
    ELSE ""

\* httpServer.ts:182: `sessions[sid]`, a property read of a plain object: an
\* own key gives its transport, a name inherited from Object.prototype gives
\* that inherited value, anything else undefined.
sessionsLookup(sess, sid) ==
    IF sid \in sess THEN "transport"
    ELSE IF sid \in ObjectPrototypeKeys THEN "inherited"
    ELSE "undefined"

\* httpServer.ts:180-197 with the tool handlers of mcpServerFactory.ts:25-35
\* and :45-55 up to their await of upstream.callTool().
postMessages(q) ==
    LET sid == resolveSession(q)
        t   == sessionsLookup(sessions, sid)
    IN  /\ \/ /\ t = "undefined"                   \* :183
              /\ lastPost' = [registered |-> sid \in sessions,
                              outcome |-> "no_transport_400"]
              /\ UNCHANGED <<calls, callSeq>>
           \/ /\ t = "inherited"                   \* :185 throws TypeError
              /\ lastPost' = [registered |-> sid \in sessions,
                              outcome |-> "type_error"]
              /\ UNCHANGED <<calls, callSeq>>
           \/ /\ t = "transport"
              /\ sid \notin DOMAIN bound           \* transport not started
              /\ lastPost' = [registered |-> sid \in sessions,
                              outcome |-> "not_started_500"]
              /\ UNCHANGED <<calls, callSeq>>
           \/ /\ t = "transport"
              /\ sid \in DOMAIN bound
              /\ callSeq < MaxCalls
              /\ callSeq' = callSeq + 1
              /\ calls' = Put(calls, callSeq + 1,
                              [from |-> sid, server |-> bound[sid].server,
                               client |-> bound[sid].client,
                               alone |-> sessions = {sid}])
              /\ lastPost' = [registered |-> sid \in sessions,
                              outcome |-> "dispatched"]
        /\ UNCHANGED <<sessions, idleTimer, upstreamClient, upstreamPromise,
                       creating, made, closeCalls, streams, issued, sseWait,
                       httpReqs, httpWait, httpDone, bound, serverTransport,
                       deliveries, settled>>
        /\ UNCHANGED <<clientVars, otherVars>>

\* mcpServerFactory.ts:27-34 and :47-54 after the await: upstream.callTool()
\* of call `c` settled, and the server that handled the request writes the
\* result (or the tool error) to the transport it is connected to.  A write
\* to a stream that has closed is lost.
callReturns(c) ==
    /\ c \in DOMAIN calls
    /\ LET to == serverTransport[calls[c].server]
       IN  deliveries' = IF to \in streams
                         THEN deliveries \cup {[call |-> c,
                                                 from |-> calls[c].from,
                                                 to |-> to,
                                                 alone |-> calls[c].alone]}
                         ELSE deliveries
    /\ calls' = Drop(calls, {c})
    /\ UNCHANGED <<sessions, idleTimer, upstreamClient, upstreamPromise,
                   creating, made, closeCalls, streams, issued, sseWait,
                   httpReqs, httpWait, httpDone, bound, serverTransport,
                   callSeq, settled, lastPost>>
    /\ UNCHANGED <<clientVars, otherVars>>

(* ============================ UpstreamClient =========================== *)
(* part_017:189-401.  `uc` is a record: the object's fields under their   *)
(* names in the source, and around them                                    *)
(*   conn      per connection opened (one `new Client` and its transport,  *)
(*             numbered in order), the state of the transport:             *)
(*             "connecting", "open", "failed" or "closed";                 *)
(*   handlers  the transports whose onclose/onerror call scheduleReconnect;*)
(*   timers    the heartbeat intervals that are running, each named after  *)
(*             the connection whose connect() started it;                  *)
(*   loops     the connect() invocations suspended at :223 ("attempt") or  *)
(*             at :233 ("sleep"), by owner: "init" is the connect() of     *)
(*             createUpstreamClient, "bg" the one of scheduleReconnect,    *)
(*             a call name the one awaited by that callTool();             *)
(*   probes    the connections a heartbeat probe is in flight on;          *)
(*   tools     the callTool() invocations, by name: where each stands      *)
(*             ("connect1", "call1", "connect2", "call2"), or how it ended:*)
(*             "ok", "err" (rejected with the error of the upstream call)  *)
(*             or "closed" (rejected with 'UpstreamClient closed');        *)
(*             whether it was called after close(); and its place in the  *)
(*             order of arrival (`seq`);                                   *)
(*   ready     createUpstreamClient() has returned the client;             *)
(*   orphaned  background connect() promises that rejected;                *)
(*   cause     what started the last reconnect: "heartbeat" (:350), "event"*)
(*             (:265-266) or "call" (:380), "none" before the first;       *)
(*   delay     the delay the last backoff() computed (:366-367); only      *)
(*             SpecBackoff follows it;                                     *)
(*   atClose   the callTool() invocations that were outstanding when       *)
(*             close() was called;                                         *)
(*   url       the address the client was constructed with (:205), tried   *)
(*             the transports createTransportAndConnect() tried on it and  *)
(*             kind the one it returned; only SpecTransport follows them;  *)
(*   counted   the connections whose failed probes make up                 *)
(*             consecutiveFailures.                                        *)
(***************************************************************************)

\* Connections one client opens over a run.
MaxConns == 3
\* callTool() invocations over a run.
MaxTools == 2
\* The retry counter is followed up to this value.
MaxAttempt == 1
\* Heartbeat failures are counted up to this value.
MaxFailures == 2

\* part_017:406 (and :208): maxConsecutiveHeartbeatFailures.
maxConsecutiveHeartbeatFailures == 2

ToolNames == {"call" \o ToString(n) : n \in 1..MaxTools}

NoConn == 0

ucInit ==
    [client |-> NoConn, transport |-> NoConn, closed |-> FALSE,
     heartbeatTimer |-> NoConn, consecutiveFailures |-> 0, attempt |-> 0,
     reconnecting |-> FALSE,
     conn |-> <<>>, handlers |-> {}, timers |-> {}, loops |-> <<>>,
     probes |-> {}, tools |-> <<>>, ready |-> FALSE, orphaned |-> 0,
     cause |-> "none", delay |-> 0, atClose |-> {},
     url |-> <<>>, tried |-> <<>>, kind |-> "", counted |-> {}]

\* part_017:356-362.
stopHeartbeat(s) ==
    [s EXCEPT !.timers = @ \ {s.heartbeatTimer},
              !.heartbeatTimer = NoConn,
              !.consecutiveFailures = 0,
              !.counted = {}]

\* part_017:325-328 and :353: the interval is started and its handle stored;
\* a handle already stored is unref'ed, not cleared.
startHeartbeat(s, k) ==
    [s EXCEPT !.timers = @ \cup {k}, !.heartbeatTimer = k]

\* part_017:262-268.
setupTransportEvents(s, k) ==
    [s EXCEPT !.transport = k, !.handlers = @ \cup {k}]

\* part_017:364-368: the retry counter after backoff().
backoffAttempt(a) == IF a < MaxAttempt THEN a + 1 ELSE a

\* part_017:218-219: how a call of connect() goes on: it returns the client
\* it holds, throws because the client is closed, or starts an attempt.
connectPath(s) ==
    IF s.client # NoConn THEN "client"
    ELSE IF s.closed THEN "closed"
    ELSE "attempt"

\* part_017:221-223: a new Client and transport, and the await of their
\* connection, in the connect() invocation of `owner`.
newAttempt(s, owner) ==
    [s EXCEPT !.conn = Append(@, "connecting"),
              !.loops = Put(@, owner, [pc |-> "attempt",
                                       conn |-> Len(s.conn) + 1])]

\* part_017:217-223: connect() called by `owner`, up to its first await.
connect(s, owner) ==
    IF connectPath(s) = "attempt" THEN newAttempt(s, owner) ELSE s

\* A scheduleReconnect that drops the connection and starts no connect().
scheduleReconnect_NoConnect(s, fromEvent) ==
    IF s.closed \/ s.reconnecting THEN s
    ELSE stopHeartbeat([s EXCEPT !.reconnecting = TRUE, !.client = NoConn,
                                 !.transport = NoConn])

\* part_017:300-323.  The connect() it starts is the "bg" invocation; it
\* finds this.client undefined and the client not closed.
scheduleReconnect(s, fromEvent) ==
    IF s.closed \/ s.reconnecting THEN s
    ELSE LET t  == s.transport
             s1 == stopHeartbeat([s EXCEPT !.reconnecting = TRUE])
             s2 == [s1 EXCEPT !.client = NoConn]
             s3 == IF t = NoConn THEN s2
                   ELSE [s2 EXCEPT !.handlers = @ \ {t},
                                   !.conn[t] = IF fromEvent THEN @
                                               ELSE "closed"]
             s4 == [s3 EXCEPT !.transport = NoConn]
         IN  connect(s4, "bg")

\* TRUE iff scheduleReconnect(s, ...) starts a connect().
scheduleReconnectStarts(s) == ~s.closed /\ ~s.reconnecting

\* `after` is `before` after a call of scheduleReconnect(); what called it
\* is noted when it started a reconnect.
noteCause(after, before, why) ==
    IF scheduleReconnectStarts(before) THEN [after EXCEPT !.cause = why]
    ELSE after

\* What the owner of a connect() does when it returns connection `k`:
\* part_017:412-413 ("init"), :320-322 ("bg"), :375-377 and :381-382 (a
\* callTool: it calls the tool on the client it was given).
connectReturned(s, owner, k) ==
    IF owner = "init" THEN [s EXCEPT !.ready = TRUE]
    ELSE IF owner = "bg" THEN [s EXCEPT !.reconnecting = FALSE]
    ELSE [s EXCEPT !.tools[owner].pc =
                       IF @ = "connect1" THEN "call1" ELSE "call2",
                   !.tools[owner].on = k,
                   !.tools[owner].tries = @ + 1]

\* What the owner of a connect() does when it throws 'UpstreamClient
\* closed' (part_017:236): the promise of "bg" has no rejection handler
\* (:320), a callTool rejects.
connectThrew(s, owner) ==
    IF owner = "init" THEN s
    ELSE IF owner = "bg"
    THEN [s EXCEPT !.reconnecting = FALSE, !.orphaned = 1]
    ELSE [s EXCEPT !.tools[owner].pc = "closed"]

\* A connect() that gives up after its first failed attempt.
connectLoopContinues_Once(s) == FALSE

\* part_017:219: `while (!this.closed)`, tested when the backoff sleep ends.
connectLoopContinues(s) == ~s.closed

\* part_017:223-229: createTransportAndConnect() of the attempt of `owner`
\* resolved.
ucAttemptSucceeds(owner) ==
    /\ owner \in DOMAIN uc.loops
    /\ uc.loops[owner].pc = "attempt"
    /\ LET k  == uc.loops[owner].conn
           s1 == [uc EXCEPT !.conn[k] = "open", !.loops = Drop(@, {owner})]
           s2 == setupTransportEvents(s1, k)
           s3 == startHeartbeat([s2 EXCEPT !.client = k], k)
           s4 == [s3 EXCEPT !.attempt = 0]
       IN  uc' = connectReturned(s4, owner, k)
    /\ UNCHANGED <<httpVars, otherVars>>

\* part_017:230-233: createTransportAndConnect() rejected; the loop computes
\* the backoff delay and sleeps.
ucAttemptFails(owner) ==
    /\ owner \in DOMAIN uc.loops
    /\ uc.loops[owner].pc = "attempt"
    /\ uc' = [uc EXCEPT !.conn[uc.loops[owner].conn] = "failed",
                        !.attempt = backoffAttempt(@),
                        !.loops[owner].pc = "sleep"]
    /\ UNCHANGED <<httpVars, otherVars>>

\* part_017:233, :219-223 and :236: the sleep ends and the loop tests
\* `closed` again.
ucSleepEnds(owner) ==
    /\ owner \in DOMAIN uc.loops
    /\ uc.loops[owner].pc = "sleep"
    /\ LET s1 == [uc EXCEPT !.loops = Drop(@, {owner})]
       IN  IF connectLoopContinues(uc)
           THEN /\ Len(uc.conn) < MaxConns
                /\ uc' = newAttempt(s1, owner)
           ELSE uc' = connectThrew(s1, owner)
    /\ UNCHANGED <<httpVars, otherVars>>

\* part_017:403-413: createUpstreamClient constructs the client and calls
\* connect().
ucCreate ==
    /\ ~uc.ready
    /\ uc.conn = <<>>
    /\ uc' = connect(uc, "init")
    /\ UNCHANGED <<httpVars, otherVars>>

\* part_017:265-266: the transport of connection `k` closes (closing = TRUE)
\* or reports an error and stays open; its handler, if still set, runs
\* scheduleReconnect(true).
\* The connections of a run are followed up to `limit`.
ucTransportEventWithin(k, closing, limit) ==
    /\ k \in DOMAIN uc.conn
    /\ uc.conn[k] = "open"
    /\ closing \/ k \in uc.handlers
    /\ LET s1 == IF closing THEN [uc EXCEPT !.conn[k] = "closed"] ELSE uc
           s2 == IF k \in uc.handlers
                 THEN noteCause(scheduleReconnect(s1, TRUE), s1, "event")
                 ELSE s1
       IN  /\ Len(s2.conn) <= limit
           /\ uc' = s2
    /\ UNCHANGED <<httpVars, otherVars>>

ucTransportEvent(k, closing) == ucTransportEventWithin(k, closing, MaxConns)

\* part_017:328-341: the interval `t` fires and, with a client held, sends a
\* probe on it.  One probe per connection is followed at a time.
ucHeartbeat(t) ==
    /\ t \in uc.timers
    /\ uc.client # NoConn
    /\ uc.client \notin uc.probes
    /\ uc' = [uc EXCEPT !.probes = @ \cup {uc.client}]
    /\ UNCHANGED <<httpVars, otherVars>>

\* part_017:342-352: the probe sent on connection `k` settles.
ucProbeSettles(k, ok) ==
    /\ k \in uc.probes
    /\ ok => uc.conn[k] = "open"
    /\ ok \/ uc.consecutiveFailures < MaxFailures
    /\ LET s1 == [uc EXCEPT !.probes = @ \ {k}]
           n  == uc.consecutiveFailures + 1
           s2 == [s1 EXCEPT !.consecutiveFailures = n,
                            !.counted = @ \cup {k}]
           s3 == IF ok THEN [s1 EXCEPT !.consecutiveFailures = 0,
                                       !.counted = {}]
                 ELSE IF n >= maxConsecutiveHeartbeatFailures
                 THEN noteCause(scheduleReconnect(s2, FALSE), s2, "heartbeat")
                 ELSE s2
       IN  /\ Len(s3.conn) <= MaxConns
           /\ uc' = s3
    /\ UNCHANGED <<httpVars, otherVars>>

\* part_017:374-377: callTool() `c` is called and awaits connect().
ucCallTool(c) ==
    /\ uc.ready
    /\ c \notin DOMAIN uc.tools
    /\ LET p  == connectPath(uc)
           t  == [pc |-> IF p = "client" THEN "call1"
                         ELSE IF p = "closed" THEN "closed" ELSE "connect1",
                  on |-> uc.client,
                  tries |-> IF p = "client" THEN 1 ELSE 0,
                  failed |-> FALSE, reconnects |-> 0,
                  afterClose |-> uc.closed,
                  seq |-> Cardinality(DOMAIN uc.tools) + 1]
           s1 == [uc EXCEPT !.tools = Put(@, c, t)]
       IN  /\ Len(uc.conn) < MaxConns \/ p # "attempt"
           /\ uc' = connect(s1, c)
    /\ UNCHANGED <<httpVars, otherVars>>

\* part_017:377-383: the upstream call of callTool() `c` settles.  A failed
\* first call runs scheduleReconnect() and then awaits connect() again; a
\* failed second call rejects the callTool().
ucCallSettles(c, ok) ==
    /\ c \in DOMAIN uc.tools
    /\ uc.tools[c].pc \in {"call1", "call2"}
    /\ ok => uc.conn[uc.tools[c].on] = "open"
    /\ LET first == uc.tools[c].pc = "call1"
           s1 == noteCause(scheduleReconnect(uc, FALSE), uc, "call")
           p  == connectPath(s1)
           n  == (IF scheduleReconnectStarts(uc) THEN 1 ELSE 0)
                 + (IF p = "attempt" THEN 1 ELSE 0)
           s2 == [s1 EXCEPT !.tools[c].failed = TRUE,
                            !.tools[c].reconnects = n,
                            !.tools[c].pc =
                                IF p = "client" THEN "call2"
                                ELSE IF p = "closed" THEN "closed"
                                ELSE "connect2",
                            !.tools[c].on =
                                IF p = "client" THEN s1.client ELSE @,
                            !.tools[c].tries =
                                IF p = "client" THEN @ + 1 ELSE @]
           s3 == connect(s2, c)
       IN  IF ok THEN uc' = [uc EXCEPT !.tools[c].pc = "ok"]
           ELSE IF first
           THEN /\ Len(s3.conn) <= MaxConns
                /\ uc' = s3
           ELSE uc' = [uc EXCEPT !.tools[c].pc = "err"]
    /\ UNCHANGED <<httpVars, otherVars>>

\* The callTool() invocations that have not settled.
Outstanding(s) ==
    {c \in DOMAIN s.tools : s.tools[c].pc \notin {"ok", "err", "closed"}}

\* part_017:386-400: the client after close().  transport.close() and
\* client.close() close the transport they hold.
close(s) ==
    LET s1 == stopHeartbeat([s EXCEPT !.closed = TRUE,
                                      !.atClose = Outstanding(s)])
        s2 == IF s.transport = NoConn THEN s1
              ELSE [s1 EXCEPT !.conn[s.transport] = "closed"]
        s3 == IF s.client = NoConn THEN s2
              ELSE [s2 EXCEPT !.conn[s.client] = "closed"]
    IN  s3

\* part_017:386-400: close(), called by the manager that holds the client
\* (httpServer.ts:114) or by the shutdown handler of the process
\* (part_019:405-408, on SIGINT or SIGTERM, which calls it at once).
ucClose ==
    /\ uc.ready
    /\ ~uc.closed
    /\ uc' = close(uc)
    /\ UNCHANGED <<httpVars, otherVars>>

(* ============================ tool handlers ============================ *)
(* mcpServerFactory.ts:18-56: the `search` and `fetch` handlers buildMcpServer *)
(* registers.  The product delegates (cfg.searchDelegate, cfg.fetchDelegate)  *)
(* are parameters of buildMcpServer: a call of one returns or throws.         *)

\* Handler invocations over a run.
MaxHandlers == 2
\* Items in the content of an upstream tool result.
MaxItems == 2

HandlerNames == {"h" \o ToString(n) : n \in 1..MaxHandlers}

\* mcpServerFactory.ts:19 and :39.
Tools == {"search", "fetch"}

\* The items of the `content` of an upstream result: a text item whose text
\* is a JSON document, a text item whose text is not, an item of another type.
Items ==
    {[type |-> "text", text |-> "json"],
     [type |-> "text", text |-> "prose"],
     [type |-> "image", text |-> ""]}

\* The results upstream.callTool() resolves with: the `content` array is
\* there or not.
ToolResults ==
    {[hasContent |-> TRUE, content |-> c] :
        c \in UNION {[1..n -> Items] : n \in 0..MaxItems}}
    \cup {[hasContent |-> FALSE, content |-> <<>>]}

\* jsonExtract.ts:13-17: JSON.parse of the text of an item succeeds or throws.
jsonParses(text) == text = "json"

\* jsonExtract.ts:8-19: the loop over the items: the first text item decides.
RECURSIVE firstTextItem(_)
firstTextItem(content) ==
    IF content = <<>> THEN "envelope"
    ELSE IF Head(content).type = "text"
    THEN IF jsonParses(Head(content).text) THEN "document" ELSE "envelope"
    ELSE firstTextItem(Tail(content))

\* jsonExtract.ts:3-23: what the delegate is given: the parsed document of
\* the first text item, or the result itself ("envelope").
extractJsonFromContent(res) ==
    IF res.hasContent THEN firstTextItem(res.content) ELSE "envelope"

\* mcpServerFactory.ts:25-27 and :45-47: the handler is called; the delegate
\* builds the upstream arguments (or throws), and the handler awaits
\* upstream.callTool().
toolHandler(h, tool, prepareThrows) ==
    /\ h \notin DOMAIN handler
    /\ handler' = Put(handler, h,
                      IF prepareThrows
                      THEN [tool |-> tool, pc |-> "threw", at |-> "prepare",
                            given |-> ""]
                      ELSE [tool |-> tool, pc |-> "call", at |-> "",
                            given |-> ""])
    /\ UNCHANGED <<httpVars, clientVars, health, announced, rpc,
                 moreVars>>

\* mcpServerFactory.ts:27-34 and :47-54: upstream.callTool() settles: it
\* rejects, or it resolves with `res`, which is unwrapped and mapped by the
\* delegate (which returns or throws), and the handler returns the mapped
\* document as text.
toolHandlerResumes(h, callOk, res, mapThrows) ==
    /\ h \in DOMAIN handler
    /\ handler[h].pc = "call"
    /\ handler' = [handler EXCEPT ![h] =
           IF ~callOk THEN [@ EXCEPT !.pc = "threw", !.at = "call"]
           ELSE IF mapThrows
           THEN [@ EXCEPT !.pc = "threw", !.at = "map",
                          !.given = extractJsonFromContent(res)]
           ELSE [@ EXCEPT !.pc = "returned",
                          !.given = extractJsonFromContent(res)]]
    /\ UNCHANGED <<httpVars, clientVars, health, announced, rpc,
                 moreVars>>

NextHandler ==
    \/ \E h \in HandlerNames, tool \in Tools, prepareThrows \in BOOLEAN :
           toolHandler(h, tool, prepareThrows)
    \/ \E h \in HandlerNames, callOk \in BOOLEAN, res \in ToolResults,
          mapThrows \in BOOLEAN :
           toolHandlerResumes(h, callOk, res, mapThrows)

(* ------------------- the JSON-RPC upstream client --------------------- *)
\* src/src/remote/upstreamClient.ts: the client opens an event stream,
\* learns the submission address from its `endpoint` event, POSTs requests
\* to that address and gets the responses on the stream, where they are
\* matched to their request by `id` through the `pending` map.
\*
\* `rpc` is the object:
\*   connected        the field of :20;
\*   connectPromise   the field of :27: 0 (null) or the connect loop whose
\*                    promise it holds;
\*   loops            the invocations of the async function of :41, each
\*                    with the await it is at ("openSse", "waitEndpoint",
\*                    "initialize", "notify", "tools", "delay", or "done"),
\*                    the stream its attempt opened and the request it
\*                    awaits;
\*   callers          the calls of connectIfNeeded(): the loop whose promise
\*                    they got (0: none, the client was connected) and
\*                    whether they have completed;
\*   streams          the event streams openSse() asked for, in order:
\*                    "opening" (at the fetch of :66), "aborted" (that fetch
\*                    was aborted), "failed", "reading" (consumeSse runs),
\*                    "ended";
\*   sseAbort         the stream the AbortController of :25 belongs to;
\*   messageTemplate  0 (null, :22) or the stream whose endpoint event set
\*                    the submission address (:122);
\*   nextId           the field of :23;
\*   pending          the Map of :24, from a key to the request whose
\*                    `resolve` and `timer` the entry holds;
\*   timers           the requests whose setTimeout of :167 is armed;
\*   requests         the calls of request() that got an id, in order, each
\*                    with
\*       id       the id it took at :163,
\*       pc       "fetch" (at the await of :170), "awaiting" (resumed by
\*                the promise of :166), "returned" or "threw",
\*       promise  "pending", "resolved" or "rejected": the promise of :166,
\*       error    what request() threw: "" (nothing), "timeout" or "fetch",
\*       unobserved  the promise was rejected while nothing was waiting for
\*                it,
\*       events   what has happened to the request since it was issued, in
\*                order: "response" (a message carrying its id came in on
\*                the stream) and "timeout" (its timer fired),
\*       to       the messageTemplate it was POSTed to,
\*       stream   the stream that was the client's latest when it was sent,
\*       by       "connect" (connectOnce and loadTools) or "call"
\*                (callToolRaw);
\*   refused          calls of request() that threw 'upstream not ready'.

\* Calls of request() that get an id over a run.
MaxRequests == 2
\* Responses and timeouts followed for one request.
MaxEvents == 2
\* Event streams the client asks for over a run.
MaxStreams == 2
\* Calls of connectIfNeeded() over a run.
MaxCallers == 3

rpcInit ==
    [connected |-> FALSE, connectPromise |-> 0, loops |-> <<>>,
     callers |-> <<>>, streams |-> <<>>, sseAbort |-> 0,
     messageTemplate |-> 0, nextId |-> 1, pending |-> <<>>,
     timers |-> {}, requests |-> <<>>, refused |-> 0]

\* The decimal numerals String() writes for the ids a run uses.
Digits == <<"1", "2", "3", "4", "5", "6">>

NoId == [type |-> "undefined", n |-> 0, s |-> ""]

\* The `id` members a message of the stream can carry: none, a number, a
\* string.
IdValues ==
    {NoId}
    \cup {[type |-> "number", n |-> n, s |-> ""] : n \in 1..(MaxRequests + 1)}
    \cup {[type |-> "string", n |-> 0, s |-> s] : s \in {"1", "x"}}

\* The data of an event of the stream: text JSON.parse accepts or not, and
\* the `id` of the document.
Payloads ==
    {[parses |-> TRUE, id |-> v] : v \in IdValues}
    \cup {[parses |-> FALSE, id |-> NoId]}

\* String(v) of :130 and :167-168.
String(v) == IF v.type = "number" THEN Digits[v.n] ELSE v.s

NumberId(n) == [type |-> "number", n |-> n, s |-> ""]

\* The key request r of the object o put its entry under (:168).
KeyOf(o, r) == String(NumberId(o.requests[r].id))

\* Map.delete(key).
mapDelete(m, k) == [x \in DOMAIN m \ {k} |-> m[x]]

\* Map.set(key, value).
mapSet(m, k, v) == [x \in DOMAIN m \cup {k} |-> IF x = k THEN v ELSE m[x]]

\* resolve() and reject() of a promise: only the first one settles it.
settlePromise(q, how) ==
    IF q.promise = "pending" THEN [q EXCEPT !.promise = how] ELSE q

\* A rejection with nobody waiting: request() is not at `return promise`.
rejectPromise(q) ==
    LET q1 == settlePromise(q, "rejected")
    IN IF q.promise = "pending" /\ q.pc # "awaiting"
       THEN [q1 EXCEPT !.unobserved = TRUE] ELSE q1

\* The continuation of `return promise` (:171) once the promise is settled.
requestReturns(q) ==
    IF q.pc = "awaiting" /\ q.promise = "resolved"
    THEN [q EXCEPT !.pc = "returned"]
    ELSE IF q.pc = "awaiting" /\ q.promise = "rejected"
    THEN [q EXCEPT !.pc = "threw", !.error = "timeout"]
    ELSE q

\* The event e has happened to the request q.
noteEvent(q, e) ==
    IF Len(q.events) < MaxEvents THEN [q EXCEPT !.events = Append(@, e)]
    ELSE q

\* A request() that takes the id without advancing the counter.
nextIdAfter_Same(id) == id

\* :163: the counter after `this.nextId++` took `id`.
nextIdAfter(id) == id + 1

\* request() from :163 to the await of fetch (:170), on the object o.
issueRequest(o, by) ==
    LET id == o.nextId
        r  == Len(o.requests) + 1
        q  == [id |-> id, pc |-> "fetch", promise |-> "pending",
               error |-> "", unobserved |-> FALSE, events |-> <<>>,
               to |-> o.messageTemplate, stream |-> o.sseAbort, by |-> by]
    IN [o EXCEPT !.nextId = nextIdAfter(id),
                 !.requests = Append(@, q),
                 !.timers = @ \cup {r},
                 !.pending = mapSet(@, String(NumberId(id)), r)]

\* connectLoop's catch (:184): the attempt of loop l failed, the loop sleeps.
attemptThrows(o, l) ==
    [o EXCEPT !.loops[l].pc = "delay", !.loops[l].req = 0]

\* connectOnce (:52): the endpoint is known, `initialize` is sent.
sendInitialize(o, l) ==
    LET o1 == issueRequest(o, "connect")
    IN [o1 EXCEPT !.loops[l].pc = "initialize",
                  !.loops[l].req = Len(o1.requests)]

\* :56, :183 and the finally of :41: connectOnce returns, the loop ends, the
\* promise of connectIfNeeded() is cleared and resolved.
loopSucceeds(o, l) ==
    [o EXCEPT !.connected = TRUE,
              !.loops[l].pc = "done",
              !.loops[l].req = 0,
              !.connectPromise = 0,
              !.callers = [c \in DOMAIN @ |->
                              IF @[c].loop = l
                              THEN [@[c] EXCEPT !.pc = "done"]
                              ELSE @[c]]]

\* The continuation of loop l after the request it awaits (:52, :140) has
\* returned or thrown.
loopResumes(o, l) ==
    LET lp == o.loops[l]
    IN IF lp.pc \notin {"initialize", "tools"} THEN o
       ELSE IF o.requests[lp.req].pc = "threw" THEN attemptThrows(o, l)
       ELSE IF o.requests[lp.req].pc # "returned" THEN o
       ELSE IF lp.pc = "initialize"
       THEN [o EXCEPT !.loops[l].pc = "notify", !.loops[l].req = 0]
       ELSE loopSucceeds(o, l)

RECURSIVE loopsResumeFrom(_, _)
loopsResumeFrom(o, l) ==
    IF l > Len(o.loops) THEN o
    ELSE loopsResumeFrom(loopResumes(o, l), l + 1)

\* Every connect loop whose awaited request has settled goes on.
loopsResume(o) == loopsResumeFrom(o, 1)

\* connectOnce up to the fetch of openSse (:48-49, :59-66) in loop l: the
\* stream of the controller held is aborted, a new one is asked for.
connectOnce(o, l) ==
    LET cur == o.sseAbort
        o1  == IF cur = 0 THEN o
               ELSE IF o.streams[cur] = "reading"
               THEN [o EXCEPT !.streams[cur] = "ended",
                              !.connected = FALSE]
               ELSE IF o.streams[cur] = "opening"
               THEN [o EXCEPT !.streams[cur] = "aborted"]
               ELSE o
        st  == Len(o.streams) + 1
    IN [o1 EXCEPT !.streams = Append(@, "opening"),
                  !.sseAbort = st,
                  !.loops[l] = [pc |-> "openSse", stream |-> st, req |-> 0]]

\* A connectIfNeeded() that does not look at the promise in flight.
connectIfNeededPath_NoShare(o) ==
    IF o.connected THEN "connected" ELSE "loop"

\* :39-41: what a call of connectIfNeeded() does.
connectIfNeededPath(o) ==
    IF o.connected THEN "connected"
    ELSE IF o.connectPromise # 0 THEN "shared"
    ELSE "loop"

\* connectIfNeeded (:38-43), up to the first await of the loop it starts.
connectIfNeeded ==
    /\ Len(rpc.callers) < MaxCallers
    /\ LET path == connectIfNeededPath(rpc)
           l    == Len(rpc.loops) + 1
       IN IF path = "connected"
          THEN rpc' = [rpc EXCEPT
                          !.callers = Append(@, [loop |-> 0, pc |-> "done"])]
          ELSE IF path = "shared"
          THEN rpc' = [rpc EXCEPT
                          !.callers = Append(@, [loop |-> rpc.connectPromise,
                                                 pc |-> "waiting"])]
          ELSE /\ Len(rpc.streams) < MaxStreams
               /\ LET o1 == [rpc EXCEPT
                               !.loops = Append(@, [pc |-> "start",
                                                    stream |-> 0, req |-> 0]),
                               !.connectPromise = l,
                               !.callers = Append(@, [loop |-> l,
                                                      pc |-> "waiting"])]
                  IN rpc' = connectOnce(o1, l)
    /\ UNCHANGED <<httpVars, clientVars, handler, health, announced,
                   moreVars>>

\* The fetch of openSse (:66-68) of loop l settles: consumeSse starts on the
\* stream and connectOnce goes on to waitForEndpoint (:50, :71-74), or
\* openSse throws.
sseFetchSettles(l, ok) ==
    /\ l \in DOMAIN rpc.loops
    /\ rpc.loops[l].pc = "openSse"
    /\ LET st == rpc.loops[l].stream
       IN /\ ok => rpc.streams[st] = "opening"
          /\ IF ~ok
             THEN rpc' = attemptThrows(
                             [rpc EXCEPT !.streams[st] =
                                 IF @ = "opening" THEN "failed" ELSE @], l)
             ELSE LET o1 == [rpc EXCEPT !.streams[st] = "reading"]
                  IN IF rpc.messageTemplate # 0
                     THEN /\ Len(rpc.requests) < MaxRequests
                          /\ rpc' = sendInitialize(o1, l)
                     ELSE rpc' = [o1 EXCEPT !.loops[l].pc = "waitEndpoint"]
    /\ UNCHANGED <<httpVars, clientVars, handler, health, announced,
                   moreVars>>

\* waitForEndpoint (:71-74) of loop l returns: the address is known, or the
\* wait has lasted ENDPOINT_WAIT_MS; connectOnce goes on (:51-52).
waitForEndpoint(l) ==
    /\ l \in DOMAIN rpc.loops
    /\ rpc.loops[l].pc = "waitEndpoint"
    /\ IF rpc.messageTemplate # 0
       THEN /\ Len(rpc.requests) < MaxRequests
            /\ rpc' = sendInitialize(rpc, l)
       ELSE rpc' = attemptThrows(rpc, l)
    /\ UNCHANGED <<httpVars, clientVars, handler, health, announced,
                   moreVars>>

\* handleEndpoint (:117-123): an endpoint event read from stream st; one
\* that names a session sets the submission address.
handleEndpoint(st, namesSession) ==
    /\ st \in DOMAIN rpc.streams
    /\ rpc.streams[st] = "reading"
    /\ rpc' = IF namesSession THEN [rpc EXCEPT !.messageTemplate = st]
              ELSE rpc
    /\ UNCHANGED <<httpVars, clientVars, handler, health, announced,
                   moreVars>>

\* :53-54 and :139-140: the POST of notify() settles (a failure is logged),
\* loadTools sends tools/list.
notifySettles(l, ok) ==
    /\ l \in DOMAIN rpc.loops
    /\ rpc.loops[l].pc = "notify"
    /\ Len(rpc.requests) < MaxRequests
    /\ LET o1 == issueRequest(rpc, "connect")
       IN rpc' = [o1 EXCEPT !.loops[l].pc = "tools",
                            !.loops[l].req = Len(o1.requests)]
    /\ UNCHANGED <<httpVars, clientVars, handler, health, announced,
                   moreVars>>

\* connectLoop (:182-184): the retry delay of loop l is over.
delayEnds(l) ==
    /\ l \in DOMAIN rpc.loops
    /\ rpc.loops[l].pc = "delay"
    /\ Len(rpc.streams) < MaxStreams
    /\ rpc' = connectOnce(rpc, l)
    /\ UNCHANGED <<httpVars, clientVars, handler, health, announced,
                   moreVars>>

\* consumeSse (:80-90): the read of stream st reports the end of the stream
\* or fails.
streamEnds(st) ==
    /\ st \in DOMAIN rpc.streams
    /\ rpc.streams[st] = "reading"
    /\ rpc' = [rpc EXCEPT !.streams[st] = "ended", !.connected = FALSE]
    /\ UNCHANGED <<httpVars, clientVars, handler, health, announced,
                   moreVars>>

\* request() called by callToolRaw (:201-203), up to the await of fetch
\* (:161-170).
request ==
    IF rpc.messageTemplate = 0
    THEN /\ rpc.refused < 1
         /\ rpc' = [rpc EXCEPT !.refused = @ + 1]
         /\ UNCHANGED <<httpVars, clientVars, handler, health, announced,
                        moreVars>>
    ELSE /\ Len(rpc.requests) < MaxRequests
         /\ rpc' = issueRequest(rpc, "call")
         /\ UNCHANGED <<httpVars, clientVars, handler, health, announced,
                        moreVars>>

\* The POST of :170 settles: request() goes on to `return promise` (:171) or
\* throws what fetch threw.
fetchSettles(r, ok) ==
    /\ r \in DOMAIN rpc.requests
    /\ rpc.requests[r].pc = "fetch"
    /\ LET q  == rpc.requests[r]
           q1 == IF ok THEN requestReturns([q EXCEPT !.pc = "awaiting"])
                 ELSE [q EXCEPT !.pc = "threw", !.error = "fetch"]
       IN rpc' = loopsResume([rpc EXCEPT !.requests[r] = q1])
    /\ UNCHANGED <<httpVars, clientVars, handler, health, announced,
                   moreVars>>

\* The requests issued so far whose id a message with this key carries.
Addressed(o, key) == {r \in DOMAIN o.requests : KeyOf(o, r) = key}

\* The pending map after dispatchJsonRpc has taken the entry of the key
\* (:133).
entryTaken_Kept(m, key) == m

entryTaken(m, key) == mapDelete(m, key)

\* dispatchJsonRpc (:125-137), for the data of one event read from a
\* stream.
dispatchJsonRpc(payload) ==
    /\ \E st \in DOMAIN rpc.streams : rpc.streams[st] = "reading"
    /\ \A r \in DOMAIN rpc.requests :
           (payload.parses /\ payload.id.type # "undefined"
            /\ KeyOf(rpc, r) = String(payload.id))
               => Len(rpc.requests[r].events) < MaxEvents
    /\ LET key   == String(payload.id)
           seen  == IF payload.parses /\ payload.id.type # "undefined"
                    THEN Addressed(rpc, key) ELSE {}
           noted == [rpc EXCEPT !.requests =
                        [r \in DOMAIN @ |->
                            IF r \in seen THEN noteEvent(@[r], "response")
                            ELSE @[r]]]
       IN IF ~payload.parses
          THEN rpc' = noted
          ELSE IF payload.id.type = "undefined"
          THEN rpc' = noted
          ELSE IF key \notin DOMAIN rpc.pending
          THEN rpc' = noted
          ELSE LET r == rpc.pending[key]
               IN rpc' = loopsResume(
                             [noted EXCEPT
                                 !.pending = entryTaken(@, key),
                                 !.timers = @ \ {r},
                                 !.requests[r] =
                                     requestReturns(
                                         settlePromise(@, "resolved"))])
    /\ UNCHANGED <<httpVars, clientVars, handler, health, announced,
                   moreVars>>

\* The callback of the setTimeout of :167, armed by request r.
requestTimeout(r) ==
    /\ r \in rpc.timers
    /\ LET key   == KeyOf(rpc, r)
           noted == [rpc EXCEPT !.timers = @ \ {r},
                                !.requests[r] = noteEvent(@, "timeout")]
       IN IF key \in DOMAIN rpc.pending
          THEN rpc' = loopsResume(
                          [noted EXCEPT
                              !.pending = mapDelete(@, key),
                              !.requests[r] =
                                  requestReturns(rejectPromise(@))])
          ELSE rpc' = noted
    /\ UNCHANGED <<httpVars, clientVars, handler, health, announced,
                   moreVars>>

NextRpc ==
    \/ connectIfNeeded
    \/ \E l \in 1..MaxCallers, ok \in BOOLEAN : sseFetchSettles(l, ok)
    \/ \E l \in 1..MaxCallers : waitForEndpoint(l)
    \/ \E st \in 1..MaxStreams, namesSession \in BOOLEAN :
           handleEndpoint(st, namesSession)
    \/ \E l \in 1..MaxCallers, ok \in BOOLEAN : notifySettles(l, ok)
    \/ \E l \in 1..MaxCallers : delayEnds(l)
    \/ \E st \in 1..MaxStreams : streamEnds(st)
    \/ request
    \/ \E r \in 1..MaxRequests, ok \in BOOLEAN : fetchSettles(r, ok)
    \/ \E payload \in Payloads : dispatchJsonRpc(payload)
    \/ \E r \in 1..MaxRequests : requestTimeout(r)

(* ------------------------- the transparent shim ----------------------- *)
\* src/src/servers/transparentShim.ts:33-51.  `shim` holds
\*   transports  the keys of the Map of :35 in insertion order;
\*   opened      the streams GET /sse has been given so far;
\*   post        the last POST /messages: the `sessionId` and `session_id`
\*               query parameters it carried ("" when absent or empty), the
\*               status it was answered with by the handler (0: the
\*               transport answers) and the session whose transport got it
\*               ("" when none).

\* Streams opened on the shim's /sse over a run.
MaxShimSessions == 2

shimInit ==
    [transports |-> <<>>, opened |-> 0,
     post |-> [sessionId |-> "", session_id |-> "", status |-> 0,
               to |-> "", asked |-> FALSE]]

\* transport.sessionId is a random UUID.
ShimSid(n) == "t" \o ToString(n)

ShimSids == {ShimSid(n) : n \in 1..MaxShimSessions}

\* The values a session parameter of the query takes: absent or empty, the
\* id of a stream of the run, an id the shim never gave out.
ShimQueryValues == ShimSids \cup {"", "nosuch"}

\* Map.delete(key) on the keys in insertion order.
keysDelete(keys, k) == SelectSeq(keys, LAMBDA x : x # k)

\* Map.set(key, ...) on the keys in insertion order.
keysSet(keys, k) ==
    IF \E i \in DOMAIN keys : keys[i] = k THEN keys ELSE Append(keys, k)

\* transparentShim.ts:37-42: GET /sse; mcp.connect(transport) resolves or
\* throws.
shimSse(connects) ==
    /\ shim.opened < MaxShimSessions
    /\ LET sid == ShimSid(shim.opened + 1)
           set == keysSet(shim.transports, sid)
       IN shim' = [shim EXCEPT
                      !.opened = @ + 1,
                      !.transports = IF connects THEN set
                                     ELSE keysDelete(set, sid)]
    /\ UNCHANGED <<httpVars, clientVars, handler, health, announced, rpc,
                   oauth>>

\* transparentShim.ts:40: the transport of `sid` closes.
shimTransportClose(sid) ==
    /\ \E i \in DOMAIN shim.transports : shim.transports[i] = sid
    /\ shim' = [shim EXCEPT !.transports = keysDelete(@, sid)]
    /\ UNCHANGED <<httpVars, clientVars, handler, health, announced, rpc,
                   oauth>>

\* transparentShim.ts:45: the session a POST /messages is looked up under;
\* "" stands for undefined.
postSessionId(keys, sessionId, session_id) ==
    IF sessionId # "" THEN sessionId
    ELSE IF session_id # "" THEN session_id
    ELSE IF keys # <<>> THEN keys[1]
    ELSE ""

\* transparentShim.ts:44-51: POST /messages.
shimPostMessages(sessionId, session_id) ==
    /\ LET sid   == postSessionId(shim.transports, sessionId, session_id)
           found == \E i \in DOMAIN shim.transports : shim.transports[i] = sid
       IN shim' = [shim EXCEPT
                      !.post = [sessionId |-> sessionId,
                                session_id |-> session_id,
                                status |-> IF found THEN 0 ELSE 404,
                                to |-> IF found THEN sid ELSE "",
                                asked |-> TRUE]]
    /\ UNCHANGED <<httpVars, clientVars, handler, health, announced, rpc,
                   oauth>>

NextShim ==
    \/ \E connects \in BOOLEAN : shimSse(connects)
    \/ \E sid \in ShimSids : shimTransportClose(sid)
    \/ \E sessionId \in ShimQueryValues, session_id \in ShimQueryValues :
           shimPostMessages(sessionId, session_id)

(* ------------------------------- OAuth -------------------------------- *)
\* src/src/servers/oauth2.ts.  `oauth` holds
\*   stateStore  the keys of the Map of :28;
\*   issued      the states the login handler has given out;
\*   passed      per state, the callbacks that got past the validation of
\*               :101-102;
\*   exchanges   the callbacks waiting for exchangeCodeForToken (:104), by
\*               number, with the state they carried;
\*   sessions    the entries of sessionTokens (:29), by number;
\*   last        the last callback answered at :101-102 or let through: its
\*               query, the status and the body of its answer (0 and "":
\*               none yet).

\* States the login handler gives out over a run.
MaxStates == 2
\* Callbacks that get past the validation over a run.
MaxExchanges == 2

oauthInit ==
    [stateStore |-> {}, issued |-> {}, passed |-> <<>>,
     exchanges |-> <<>>, sessions |-> {},
     last |-> [state |-> "", code |-> FALSE, error |-> FALSE,
               status |-> 0, body |-> "", answered |-> FALSE]]

\* crypto.randomUUID().
OAuthState(n) == "s" \o ToString(n)

OAuthStates == {OAuthState(n) : n \in 1..MaxStates}

\* The `state` parameter of a callback: absent or empty, a state of the run
\* (given out already or not), a value the login handler never gives out.
CallbackStates == OAuthStates \cup {"", "forged"}

\* oauth2.ts:45-60: GET /oauth/login.
oauthLoginHandler ==
    /\ Cardinality(oauth.issued) < MaxStates
    /\ LET state == OAuthState(Cardinality(oauth.issued) + 1)
       IN oauth' = [oauth EXCEPT !.stateStore = @ \cup {state},
                                 !.issued = @ \cup {state}]
    /\ UNCHANGED <<httpVars, clientVars, handler, health, announced, rpc,
                   shim>>

\* The state store after a callback that keeps the state it validated.
stateConsumed_Kept(store, state) == store

\* oauth2.ts:103: stateStore.delete(state).
stateConsumed(store, state) == store \ {state}

\* oauth2.ts:97-104: GET /oauth/callback up to the await of the token
\* exchange; `code` and `error`: the parameter is there and not empty.
oauthCallbackHandler(state, code, error) ==
    /\ LET n == IF state \in DOMAIN oauth.passed THEN oauth.passed[state]
                ELSE 0
       IN IF error
          THEN oauth' = [oauth EXCEPT
                            !.last = [state |-> state, code |-> code,
                                      error |-> error, status |-> 400,
                                      body |-> "error", answered |-> TRUE]]
          ELSE IF ~code \/ state = "" \/ state \notin oauth.stateStore
          THEN oauth' = [oauth EXCEPT
                            !.last = [state |-> state, code |-> code,
                                      error |-> error, status |-> 400,
                                      body |-> "invalid_state",
                                      answered |-> TRUE]]
          ELSE /\ Len(oauth.exchanges) < MaxExchanges
               /\ oauth' = [oauth EXCEPT
                              !.stateStore = stateConsumed(@, state),
                              !.passed = Put(@, state, n + 1),
                              !.exchanges = Append(@, [state |-> state,
                                                       pc |-> "exchange"]),
                              !.last = [state |-> state, code |-> code,
                                        error |-> error, status |-> 0,
                                        body |-> "", answered |-> FALSE]]
    /\ UNCHANGED <<httpVars, clientVars, handler, health, announced, rpc,
                   shim>>

\* oauth2.ts:104-117: the token exchange of callback `x` settles.
oauthExchangeSettles(x, ok) ==
    /\ x \in DOMAIN oauth.exchanges
    /\ oauth.exchanges[x].pc = "exchange"
    /\ oauth' = [oauth EXCEPT
                    !.exchanges[x].pc = IF ok THEN "200" ELSE "500",
                    !.sessions = IF ok THEN @ \cup {x} ELSE @]
    /\ UNCHANGED <<httpVars, clientVars, handler, health, announced, rpc,
                   shim>>

NextOAuth ==
    \/ oauthLoginHandler
    \/ \E state \in CallbackStates, code \in BOOLEAN, error \in BOOLEAN :
           oauthCallbackHandler(state, code, error)
    \/ \E x \in 1..MaxExchanges, ok \in BOOLEAN : oauthExchangeSettles(x, ok)

(* ---------------------------- specification --------------------------- *)

Init ==
    /\ sessions = {}
    /\ idleTimer = FALSE
    /\ upstreamClient = NoClient
    /\ upstreamPromise = NoClient
    /\ creating = {}
    /\ made = 0
    /\ closeCalls = [u \in ClientIds |-> 0]
    /\ streams = {}
    /\ issued = 0
    /\ sseWait = <<>>
    /\ httpReqs = 0
    /\ httpWait = <<>>
    /\ httpDone = <<>>
    /\ bound = <<>>
    /\ serverTransport = <<>>
    /\ calls = <<>>
    /\ callSeq = 0
    /\ deliveries = {}
    /\ settled = [u \in ClientIds |-> 0]
    /\ lastPost = [registered |-> FALSE, outcome |-> "none"]
    /\ uc = ucInit
    /\ handler = <<>>
    /\ health = [status |-> 0, when |-> "never"]
    /\ announced = <<>>
    /\ rpc = rpcInit
    /\ shim = shimInit
    /\ oauth = oauthInit

Next ==
    \/ handleSSE
    \/ \E sid \in SessionIds : onSessionClose(sid)
    \/ idleTimerFires
    \/ \E u \in ClientIds : createResolved(u)
    \/ handleStreamableHTTP
    \/ \E q \in Queries : postMessages(q)
    \/ \E c \in 1..MaxCalls : callReturns(c)

Spec == Init /\ [][Next]_vars

NextClient ==
    \/ ucCreate
    \/ \E o \in {"init", "bg"} \cup ToolNames : ucAttemptSucceeds(o)
    \/ \E o \in {"init", "bg"} \cup ToolNames : ucAttemptFails(o)
    \/ \E o \in {"init", "bg"} \cup ToolNames : ucSleepEnds(o)
    \/ \E k \in 1..MaxConns, closing \in BOOLEAN : ucTransportEvent(k, closing)
    \/ \E t \in 1..MaxConns : ucHeartbeat(t)
    \/ \E k \in 1..MaxConns, ok \in BOOLEAN : ucProbeSettles(k, ok)
    \/ \E c \in ToolNames : ucCallTool(c)
    \/ \E c \in ToolNames, ok \in BOOLEAN : ucCallSettles(c, ok)
    \/ ucClose

SpecClient == Init /\ [][NextClient]_vars

\* The client with its tool calls and the events of its transports, the
\* heartbeat and close() left aside; an event of a transport that is not
\* the current one may open one connection more.
NextStale ==
    \/ ucCreate
    \/ \E o \in {"init", "bg"} \cup ToolNames : ucAttemptSucceeds(o)
    \/ \E k \in 1..MaxConns, closing \in BOOLEAN :
           ucTransportEventWithin(k, closing,
               IF k = uc.transport THEN MaxConns ELSE MaxConns + 1)
    \/ \E c \in ToolNames : ucCallTool(c)
    \/ \E c \in ToolNames, ok \in BOOLEAN : ucCallSettles(c, ok)

SpecStale == Init /\ [][NextStale]_vars

SpecHandler == Init /\ [][NextHandler]_vars

SpecRpc == Init /\ [][NextRpc]_vars

SpecShim == Init /\ [][NextShim]_vars

SpecOAuth == Init /\ [][NextOAuth]_vars

(* ------------------------------- backoff ------------------------------- *)
(* part_017:364-368 on its own: the delays of a run of failed attempts,   *)
(* with the retry counter followed exactly (the connect() loop above      *)
(* follows it up to MaxAttempt and has no clock).                         *)

\* part_017:407-409: the options createUpstreamClient passes.
baseDelayMs == 500
maxDelayMs == 15000
jitterMs == 300

\* backoff() is followed for attempt numbers 0..MaxBackoffAttempt.
MaxBackoffAttempt == 8
\* Math.random() is one of k / RandomGrain, k in 0..RandomGrain-1.
RandomGrain == 16

RECURSIVE Pow2(_)
Pow2(n) == IF n = 0 THEN 1 ELSE 2 * Pow2(n - 1)

Min(a, b) == IF a <= b THEN a ELSE b

\* part_017:367: Math.floor(Math.random() * jitterMs) for Math.random() =
\* k / RandomGrain.
jitterDraw(k) == (k * jitterMs) \div RandomGrain

\* A backoff without the cap.
backoff_Uncapped(n, k) == baseDelayMs * Pow2(n) + jitterDraw(k)

\* part_017:366-367: the delay computed with the retry counter at n.  The
\* products are exact in a double for every n of the model.
backoff(n, k) == Min(maxDelayMs, baseDelayMs * Pow2(n)) + jitterDraw(k)

\* part_017:231 and :364-368: one call of backoff(): the delay is computed
\* from the counter, which is then incremented.
ucBackoff(k) ==
    /\ uc.attempt <= MaxBackoffAttempt
    /\ uc' = [uc EXCEPT !.delay = backoff(uc.attempt, k), !.attempt = @ + 1]
    /\ UNCHANGED <<httpVars, otherVars>>

NextBackoff == \E k \in 0..(RandomGrain - 1) : ucBackoff(k)

SpecBackoff == Init /\ [][NextBackoff]_vars

(* ------------------------- transport selection ------------------------- *)
(* part_017:239-260 on its own.  An address is a sequence of pieces: the    *)
(* scheme with the start of the host name as one piece, then one piece per  *)
(* character.                                                               *)

\* The longest path of an address, in characters.
MaxPathLen == 6

Origins ==
    {<<"http://host">>,
     <<"http://host", ".", "m", "c", "p">>,
     <<"http://host", ".", "s", "s", "e">>}

Paths ==
    {<<>>, <<"/">>, <<"/", "x">>,
     <<"/", "m", "c", "p">>, <<"/", "s", "s", "e">>,
     <<"/", "a", ".", "m", "c", "p">>, <<"/", "a", ".", "s", "s", "e">>,
     <<"/", "m", "c", "p", "/">>, <<"/", "s", "s", "e", "/">>,
     <<"/", "a", ".", "m", "c", "p", "/">>}

UrlQueries == {<<>>, <<"?", "q">>}

\* The values of UPSTREAM_MCP_URL: origin, path and query as they are written.
UpstreamUrls ==
    {[origin |-> o, path |-> p, query |-> q] :
        o \in Origins, p \in {x \in Paths : Len(x) <= MaxPathLen},
        q \in UrlQueries}

\* The address as it was written.
urlWritten(u) == u.origin \o u.path \o u.query

\* part_017:205 and :240: new URL(upstreamUrl).toString(): the serialisation
\* of an http address gives an empty path as "/".
urlToString(u) ==
    u.origin \o (IF u.path = <<>> THEN <<"/">> ELSE u.path) \o u.query

\* String.prototype.endsWith.
endsWith(str, suffix) ==
    /\ Len(str) >= Len(suffix)
    /\ SubSeq(str, Len(str) - Len(suffix) + 1, Len(str)) = suffix

endsInMcp(str) ==
    endsWith(str, <<"/", "m", "c", "p">>) \/ endsWith(str, <<".", "m", "c", "p">>)

endsInSse(str) ==
    endsWith(str, <<"/", "s", "s", "e">>) \/ endsWith(str, <<".", "s", "s", "e">>)

\* A selection that tries the push stream first on an undecided address.
createTransportAndConnect_SseFirst(urlStr, httpOk, sseOk) ==
    IF endsInMcp(urlStr)
    THEN [tried |-> <<"StreamableHTTP">>,
          kind |-> IF httpOk THEN "StreamableHTTP" ELSE "rejected"]
    ELSE IF endsInSse(urlStr)
    THEN [tried |-> <<"SSE">>, kind |-> IF sseOk THEN "SSE" ELSE "rejected"]
    ELSE IF sseOk
    THEN [tried |-> <<"SSE">>, kind |-> "SSE"]
    ELSE [tried |-> <<"SSE", "StreamableHTTP">>,
          kind |-> IF httpOk THEN "StreamableHTTP" ELSE "rejected"]

\* part_017:239-260: the transports tried on `urlStr`, in order, and the one
\* returned, when client.connect() succeeds on a StreamableHTTPClientTransport
\* iff httpOk and on an SSEClientTransport iff sseOk.
createTransportAndConnect(urlStr, httpOk, sseOk) ==
    IF endsInMcp(urlStr)
    THEN [tried |-> <<"StreamableHTTP">>,
          kind |-> IF httpOk THEN "StreamableHTTP" ELSE "rejected"]
    ELSE IF endsInSse(urlStr)
    THEN [tried |-> <<"SSE">>, kind |-> IF sseOk THEN "SSE" ELSE "rejected"]
    ELSE IF httpOk
    THEN [tried |-> <<"StreamableHTTP">>, kind |-> "StreamableHTTP"]
    ELSE [tried |-> <<"StreamableHTTP", "SSE">>,
          kind |-> IF sseOk THEN "SSE" ELSE "rejected"]

\* part_017:204-205: the client is constructed for an address.
ucConstruct(u) ==
    /\ uc.url = <<>>
    /\ uc' = [uc EXCEPT !.url = u]
    /\ UNCHANGED <<httpVars, otherVars>>

\* part_017:223 and :239-260: one call of createTransportAndConnect().
ucSelectTransport(httpOk, sseOk) ==
    /\ uc.url # <<>>
    /\ uc.tried = <<>>
    /\ LET r == createTransportAndConnect(urlToString(uc.url), httpOk, sseOk)
       IN  uc' = [uc EXCEPT !.tried = r.tried, !.kind = r.kind]
    /\ UNCHANGED <<httpVars, otherVars>>

NextTransport ==
    \/ \E u \in UpstreamUrls : ucConstruct(u)
    \/ \E httpOk \in BOOLEAN, sseOk \in BOOLEAN : ucSelectTransport(httpOk, sseOk)

SpecTransport == Init /\ [][NextTransport]_vars

(* ------------------- the upstream accepts connections ------------------ *)
(* The held client while sessions come and go within the idle grace       *)
(* period (the idle timer does not fire, so close() is not called), with  *)
(* an upstream that is reachable in the end: a connection attempt that    *)
(* stays pending is accepted, a tool call sent on an open connection is   *)
(* answered, one sent on a closed connection fails, and no transport      *)
(* drops while a tool call is in flight.                                  *)

\* The connect() invocations suspended in their backoff sleep (part_017:233).
Sleeping(s) == {o \in DOMAIN s.loops : s.loops[o].pc = "sleep"}

\* Every sleeping connect() can open one more connection within MaxConns.
Fits == Len(uc'.conn) + Cardinality(Sleeping(uc')) <= MaxConns

\* No callTool() is in flight.
NoCallInFlight ==
    \A c \in DOMAIN uc.tools : uc.tools[c].pc \in {"ok", "err", "closed"}

Owners == {"init", "bg"} \cup ToolNames

NextUp ==
    \/ handleSSE
    \/ \E sid \in SessionIds : onSessionClose(sid)
    \/ \E u \in ClientIds : uc.ready /\ createResolved(u)
    \/ creating # {} /\ ucCreate
    \/ \E o \in Owners : ucAttemptSucceeds(o)
    \/ \E o \in Owners : ucAttemptFails(o) /\ Fits
    \/ \E o \in Owners : ucSleepEnds(o)
    \/ \E k \in 1..MaxConns, closing \in BOOLEAN :
           NoCallInFlight /\ ucTransportEvent(k, closing) /\ Fits
    \/ \E t \in 1..MaxConns : ucHeartbeat(t)
    \/ \E k \in 1..MaxConns, ok \in BOOLEAN : ucProbeSettles(k, ok) /\ Fits
    \/ \E c \in ToolNames :
           (\E s \in sessions : s \in DOMAIN bound) /\ ucCallTool(c) /\ Fits
    \/ \E c \in ToolNames :
           ucCallSettles(c, uc.conn[uc.tools[c].on] = "open") /\ Fits

\* The backoff timer of a sleeping connect() fires (setTimeout, part_017:371);
\* the upstream accepts an attempt that stays pending.
FairUp ==
    \A o \in Owners : WF_vars(ucSleepEnds(o)) /\ WF_vars(ucAttemptSucceeds(o))

SpecUp == Init /\ [][NextUp]_vars /\ FairUp

(* --------------------------- prefix resolution ------------------------- *)
(* part_022:12-32 and httpServer.ts:63-66.  A string is a sequence of      *)
(* pieces: "/", ",", "?" and " " are pieces of their own, any other piece  *)
(* is a run of characters that holds none of them.                         *)

\* The static prefixes createHttpServer is given.
StaticPrefixes == {<<>>, <<"/", "jira">>, <<"/", "jira", "/">>}

\* The values of a forwarding header; <<>> is a header that is not sent.
ForwardedValues ==
    {<<>>, <<"/", "jira">>, <<"jira", "/">>,
     <<" ", "/", "jira", ",", "/", "x">>}

\* req.originalUrl of a request that opens a stream.
OriginalUrls ==
    {<<"/", "sse">>, <<"/", "sse", "/">>, <<"/", "sse", "?", "q">>,
     <<"/", "jira", "/", "sse">>, <<"/", "mcp", "?", "transport=sse">>}

SseRequests ==
    [staticPrefix : StaticPrefixes, xForwardedPrefix : ForwardedValues,
     xForwardedUri : {<<>>, <<"/", "jira", "/", "sse">>},
     originalUrl : OriginalUrls]

\* str.replace(/\/+$/, '').
RECURSIVE stripTrailingSlashes(_)
stripTrailingSlashes(str) ==
    IF str # <<>> /\ str[Len(str)] = "/"
    THEN stripTrailingSlashes(SubSeq(str, 1, Len(str) - 1))
    ELSE str

\* str.split(sep)[0].
RECURSIVE splitFirst(_, _)
splitFirst(str, sep) ==
    IF str = <<>> \/ Head(str) = sep THEN <<>>
    ELSE <<Head(str)>> \o splitFirst(Tail(str), sep)

RECURSIVE trimStart(_)
trimStart(str) ==
    IF str # <<>> /\ Head(str) = " " THEN trimStart(Tail(str)) ELSE str

RECURSIVE trimEnd(_)
trimEnd(str) ==
    IF str # <<>> /\ str[Len(str)] = " "
    THEN trimEnd(SubSeq(str, 1, Len(str) - 1))
    ELSE str

\* str.trim().
trim(str) == trimEnd(trimStart(str))

\* part_022:12-27.
resolveDynamicPrefix(req, staticPrefix) ==
    LET dynamicPrefix == stripTrailingSlashes(staticPrefix)
        hdr  == IF req.xForwardedPrefix # <<>> THEN req.xForwardedPrefix
                ELSE req.xForwardedUri
        xfwd == trim(splitFirst(hdr, ","))
        original == splitFirst(req.originalUrl, "?")
    IN  IF dynamicPrefix # <<>>
        THEN [prefix |-> dynamicPrefix, reason |-> "static"]
        ELSE IF xfwd # <<>>
        THEN [prefix |-> stripTrailingSlashes(xfwd), reason |-> "x-forwarded"]
        ELSE IF original # <<>> /\ original # <<"/">>
        THEN [prefix |-> stripTrailingSlashes(original), reason |-> "original"]
        ELSE [prefix |-> <<>>, reason |-> "empty"]

\* part_022:29-32.
normalizePrefix(p) ==
    IF p = <<>> THEN <<>>
    ELSE IF Head(p) = "/" THEN p
    ELSE <<"/">> \o p

\* httpServer.ts:63-66: the prefix and the submission address openSession
\* hands to the transport of the session, which announces it.
openSessionEndpoint(req) ==
    LET resolved == resolveDynamicPrefix(req, req.staticPrefix)
        dynamicPrefix == normalizePrefix(resolved.prefix)
    IN  /\ announced' = [req |-> req, prefix |-> dynamicPrefix,
                         reason |-> resolved.reason,
                         endpoint |-> dynamicPrefix \o <<"/", "messages">>]
        /\ UNCHANGED <<httpVars, clientVars, handler, health, rpc,
                 moreVars>>

NextPrefix == \E req \in SseRequests : openSessionEndpoint(req)

SpecPrefix == Init /\ [][NextPrefix]_vars

(* ------------------------------- /healthz ------------------------------ *)
(* httpServer.ts:33, served beside the sessions and the held client of     *)
(* SpecUp, here without fairness and with the idle timer firing: the run   *)
(* of the one UpstreamClient object the model follows ends with its        *)
(* close(), after which no stream is opened.  No tool is called.           *)

\* The condition of the upstream client as the manager and the client see it.
clientCondition ==
    IF uc.closed THEN "closed"
    ELSE IF uc.reconnecting THEN "reconnecting"
    ELSE IF upstreamClient # NoClient THEN "connected"
    ELSE IF creating # {} THEN "creating"
    ELSE "absent"

\* A /healthz that reports whether an upstream client is held.
healthzStatus_ChecksUpstream(client) == IF client = NoClient THEN 503 ELSE 200

\* httpServer.ts:33: res.status(200).
healthzStatus(client) == 200

\* httpServer.ts:33: GET /healthz.  `health` keeps the status of the last
\* response and the condition of the upstream client it was given in.
healthz ==
    /\ health' = [status |-> healthzStatus(upstreamClient),
                  when |-> clientCondition]
    /\ UNCHANGED <<httpVars, clientVars, handler, announced, rpc,
                 moreVars>>

\* httpServer.ts:48-57, closeUpstream (:112-120) and the close() of the held
\* client (part_017:386-400): the idle timer fires.
idleTimerFiresUp ==
    /\ idleTimer
    /\ idleTimer' = FALSE
    /\ IF idleCallbackCloses(sessions)
       THEN /\ closeCalls' = closeUpstreamCalls(upstreamClient, closeCalls)
            /\ upstreamClient' = closeUpstreamRef(upstreamClient)
            /\ uc' = IF upstreamClient # NoClient THEN close(uc) ELSE uc
       ELSE UNCHANGED <<closeCalls, upstreamClient, uc>>
    /\ UNCHANGED <<sessions, upstreamPromise, creating, made, streams, issued,
                   sseWait, httpReqs, httpWait, httpDone, bound,
                   serverTransport, calls, callSeq, deliveries, settled, lastPost>>
    /\ UNCHANGED otherVars

NextHealth ==
    \/ healthz
    \/ idleTimerFiresUp
    \/ ~uc.closed /\ handleSSE
    \/ \E sid \in SessionIds : onSessionClose(sid)
    \/ \E u \in ClientIds : uc.ready /\ createResolved(u)
    \/ creating # {} /\ ucCreate
    \/ \E o \in Owners : ucAttemptSucceeds(o)
    \/ \E o \in Owners : ucAttemptFails(o) /\ Fits
    \/ \E o \in Owners : ucSleepEnds(o)
    \/ \E k \in 1..MaxConns, closing \in BOOLEAN :
           ucTransportEvent(k, closing) /\ Fits
    \/ \E t \in 1..MaxConns : ucHeartbeat(t)
    \/ \E k \in 1..MaxConns, ok \in BOOLEAN : ucProbeSettles(k, ok) /\ Fits

SpecHealth == Init /\ [][NextHealth]_vars

(* ================================ claims =============================== *)

\* The ensureUpstream() calls that are pending.
Pending == DOMAIN sseWait \cup DOMAIN httpWait

\* The promise a pending call awaits.
Awaited(w) == IF w \in DOMAIN sseWait THEN sseWait[w] ELSE httpWait[w]

\* The clients that were created and connected and have not been closed.
Live == {u \in 1..made : u \notin creating /\ closeCalls[u] = 0}

\* C1: close() is never called on an upstream client while a session is
\* registered, and no registered session is bound to a client on which
\* close() has been called.
C1_NeverClosedInUse ==
    /\ [][\A u \in ClientIds :
            closeCalls'[u] > closeCalls[u] => sessions = {} /\ sessions' = {}]_vars
    /\ [](\A s \in sessions :
            s \in DOMAIN bound => closeCalls[bound[s].client] = 0)

\* A client has been closed by the idle timer, and later a session is
\* registered and bound to a client.
C1_Witness ==
    /\ \E u \in ClientIds : closeCalls[u] > 0
    /\ \E s \in sessions : s \in DOMAIN bound

\* C2: overlapping ensureUpstream() calls made while no client is held share
\* one creation: at most one client is being created, every pending call
\* awaits it and gets its client when it settles, the promise is cleared
\* then, and the manager never holds more than one client.
C2_SingleCreation ==
    /\ [](/\ Cardinality(creating) <= 1
          /\ \A w \in Pending : Awaited(w) \in creating
          /\ upstreamPromise # NoClient <=> creating # {}
          /\ upstreamPromise # NoClient => upstreamPromise \in creating
          /\ Live \subseteq {upstreamClient}
          /\ Cardinality(Live) <= 1)
    /\ [][\A u \in creating : u \notin creating' =>
            /\ upstreamClient' = u
            /\ upstreamPromise' = NoClient
            /\ \A s \in DOMAIN sseWait :
                 s \in DOMAIN bound' /\ bound'[s].client = u
            /\ \A h \in DOMAIN httpWait :
                 h \in DOMAIN httpDone' /\ httpDone'[h] = u]_vars

\* One creation has resolved two or more overlapping calls.
C2_Witness ==
    \E u \in ClientIds : settled[u] >= 2 /\ upstreamClient = u

\* C6: a POST /messages that names no registered session is answered with
\* the session-not-found error.
C6_UnknownSessionNotFound ==
    (lastPost.outcome # "none" /\ ~lastPost.registered)
        => lastPost.outcome = "no_transport_400"

\* C7: the result of a tool call is written only to the stream of the
\* session that issued it.
C7_NoCrossTalk ==
    \A d \in deliveries : d.to = d.from

\* A result has been delivered to its session while an earlier call of
\* another session, made through the same upstream client, is in flight.
C7_Witness ==
    \E d \in deliveries : \E c \in DOMAIN calls :
        /\ c < d.call
        /\ calls[c].from # d.from
        /\ calls[c].client = bound[d.from].client

\* C8: the registry holds exactly the sessions whose stream was opened and
\* has not closed.
C8_RegistryIsOpenStreams ==
    sessions = streams

\* A session was opened and closed again while a later one stays open.
C8_Witness ==
    /\ issued >= 2
    /\ SidName(1) \notin sessions
    /\ SidName(2) \in sessions

\* C9: when the last session closes the idle timer is armed; when it fires
\* with no session registered and a client held, close() is called on that
\* client, for the only time, and the reference is dropped.
C9_IdleCloseOnce ==
    /\ [][(sessions # {} /\ sessions' = {}) => idleTimer']_vars
    /\ [][(idleTimer /\ ~idleTimer' /\ sessions = {} /\ sessions' = {}
              /\ upstreamClient # NoClient)
            => /\ closeCalls' = [closeCalls EXCEPT ![upstreamClient] = 1]
               /\ upstreamClient' = NoClient]_vars
    /\ [](\A u \in ClientIds : closeCalls[u] <= 1)

\* The timer has fired after the last session closed: the client that was
\* held has been closed and no client is held.
C9_Witness ==
    /\ issued >= 1
    /\ sessions = {}
    /\ ~idleTimer
    /\ upstreamClient = NoClient
    /\ \E u \in ClientIds : closeCalls[u] = 1

\* Nothing is in progress and nothing is scheduled: no session, no armed
\* timer, no creation, no suspended handler, no call in flight.
Quiescent ==
    /\ sessions = {}
    /\ ~idleTimer
    /\ creating = {}
    /\ Pending = {}
    /\ DOMAIN calls = {}

\* C10: an idle service holds no upstream client.
C10_IdleHoldsNoClient ==
    Quiescent => upstreamClient = NoClient

\* C3: at most one connection attempt of an UpstreamClient is in progress.
C3_SingleAttemptInFlight ==
    Cardinality({o \in DOMAIN uc.loops : uc.loops[o].pc = "attempt"}) <= 1

\* C4: a callTool() whose first upstream call failed on a client that is not
\* closed forced exactly one new connection, and makes at most two upstream
\* calls.
C4_OneReconnectOneRetry ==
    \A c \in DOMAIN uc.tools :
        (uc.tools[c].failed /\ ~uc.closed)
            => uc.tools[c].reconnects = 1 /\ uc.tools[c].tries <= 2

\* C5: every transport the client opened, other than its current one, has
\* been closed.
C5_OneOpenTransport ==
    \A k \in DOMAIN uc.conn : uc.conn[k] = "open" => k = uc.transport

\* C11: while the idle timer is armed, the arrival of a stream on /sse or of
\* a request to /mcp, which both call ensureUpstream(), cancels the timer.
C11_ArrivalCancelsTimer ==
    [][(idleTimer /\ (issued' # issued \/ httpReqs' # httpReqs))
          => ~idleTimer']_vars

\* C12: a callTool() called after close() is rejected at once with
\* 'UpstreamClient closed'.
C12_ClosedRejectsCalls ==
    \A c \in DOMAIN uc.tools :
        uc.tools[c].afterClose => uc.tools[c].pc = "closed"

\* C13: after close() no connection of the client becomes open and no
\* heartbeat interval is started.
C13_ClosedIsTerminal ==
    [][uc.closed =>
          /\ \A k \in DOMAIN uc'.conn :
                 uc'.conn[k] = "open" => (k \in DOMAIN uc.conn /\ uc.conn[k] = "open")
          /\ uc'.timers \subseteq uc.timers]_vars

\* C14: a client that holds a connection and is not closed never stands with
\* maxConsecutiveHeartbeatFailures counted failures: the probe failure that
\* reaches the threshold drops the connection and resets the counter.
C14_ThresholdForcesReconnect ==
    (uc.client # NoConn /\ ~uc.closed)
        => uc.consecutiveFailures < maxConsecutiveHeartbeatFailures

\* A step in which a heartbeat probe of a client that holds a connection
\* fails as the failure that reaches maxConsecutiveHeartbeatFailures.  (A
\* successful probe only resets the counter.)
ProbeFailsAtThreshold ==
    /\ uc.client # NoConn
    /\ uc'.probes # uc.probes
    /\ uc'.probes \subseteq uc.probes
    /\ uc.consecutiveFailures + 1 >= maxConsecutiveHeartbeatFailures
    /\ ~(uc'.consecutiveFailures = 0 /\ uc'.reconnecting = uc.reconnecting)

C16_CallAfterDropSucceeds ==
    \A c \in DOMAIN uc.tools : uc.tools[c].pc # "err"

\* C17: connect() of a client that is not closed does not reject, a failed
\* attempt is followed by the backoff sleep and the sleep by another attempt,
\* and every connect() returns with the client connected.
C17_ConnectRetriesUntilConnected ==
    /\ [](uc.orphaned = 0 /\ \A c \in DOMAIN uc.tools : uc.tools[c].pc # "closed")
    /\ [][\A o \in DOMAIN uc.loops :
            (uc.loops[o].pc = "attempt" /\ uc'.conn[uc.loops[o].conn] = "failed")
                => (o \in DOMAIN uc'.loops /\ uc'.loops[o].pc = "sleep")]_vars
    /\ \A o \in Owners :
           (o \in DOMAIN uc.loops /\ uc.loops[o].pc = "sleep")
               ~> (o \in DOMAIN uc.loops /\ uc.loops[o].pc = "attempt")
    /\ \A o \in Owners :
           (o \in DOMAIN uc.loops) ~> (o \notin DOMAIN uc.loops /\ uc.client # NoConn)

\* The connect() of createUpstreamClient has returned the connected client
\* after two failed attempts.
C17_Witness ==
    /\ uc.ready
    /\ Len(uc.conn) = 3
    /\ uc.conn[1] = "failed"
    /\ uc.conn[2] = "failed"
    /\ uc.client = 3

\* C18: the delay backoff() computes for attempt number n is at least
\* min(maxDelayMs, baseDelayMs * 2^n) and at most maxDelayMs + jitterMs.
C18_BackoffWithinBounds ==
    uc.attempt >= 1 =>
        LET n == uc.attempt - 1
        IN  /\ uc.delay >= Min(maxDelayMs, baseDelayMs * Pow2(n))
            /\ uc.delay <= maxDelayMs + jitterMs

\* backoff() has computed a capped delay with the largest jitter.
C18_Witness ==
    /\ uc.attempt >= 1
    /\ baseDelayMs * Pow2(uc.attempt - 1) > maxDelayMs
    /\ uc.delay = maxDelayMs + jitterDraw(RandomGrain - 1)

\* A step in which one of two or more registered sessions is removed.
ClosesOneOfSeveral ==
    /\ Cardinality(sessions) >= 2
    /\ \E s \in sessions : sessions' = sessions \ {s}

\* C19: when one of several sessions closes, the others stay registered and
\* bound as they were, the idle timer is not armed, and the client is
\* neither closed nor replaced; and a request a registered session posts is
\* dispatched through the client the manager holds, on which close() was not
\* called, and its result is written to that session's stream.
C19_ClosingOneKeepsOthers ==
    /\ [][ClosesOneOfSeveral =>
            /\ ~idleTimer'
            /\ upstreamClient' = upstreamClient
            /\ upstreamPromise' = upstreamPromise
            /\ closeCalls' = closeCalls
            /\ bound' = bound
            /\ serverTransport' = serverTransport]_vars
    /\ [](\A c \in DOMAIN calls :
            calls[c].from \in sessions =>
                /\ calls[c].client = upstreamClient
                /\ closeCalls[calls[c].client] = 0)
    /\ [][\A c \in DOMAIN calls :
            (c \notin DOMAIN calls' /\ calls[c].from \in streams) =>
                [call |-> c, from |-> calls[c].from, to |-> calls[c].from,
                 alone |-> calls[c].alone] \in deliveries']_vars

\* Sessions 1 and 2 were open together (a request arrived then), session 1
\* has closed, and a request session 2 posted after that has been answered
\* on its stream.
C19_Witness ==
    /\ issued = 2
    /\ SidName(1) \notin sessions
    /\ SidName(2) \in sessions
    /\ \E d, e \in deliveries :
           /\ ~e.alone
           /\ d.call > e.call
           /\ d.alone
           /\ d.to = SidName(2)

\* C20: the submission address of every open stream has been announced: the
\* transport of every registered session has been started.
C20_EndpointAnnouncedAtOpen ==
    \A s \in sessions : s \in DOMAIN bound

\* C21: no invocation of a tool handler ends with an exception a delegate
\* threw: one thrown while the upstream arguments are built or while the
\* upstream payload is mapped is caught in the handler, which returns a
\* result.  (Only a failed upstream call makes a handler fail.)
C21_DelegateExceptionCaught ==
    \A h \in DOMAIN handler :
        handler[h].pc = "threw" => handler[h].at = "call"

\* C22: close() is called on the upstream client only when no invocation is
\* outstanding.  (The code has no drain timer whose expiry could allow it
\* earlier.)
C22_CloseAfterDrain ==
    uc.closed => uc.atClose = {}

\* The callTool() invocations whose first upstream call has been issued.
Issued(s) == {c \in DOMAIN s.tools : s.tools[c].tries >= 1}

\* C23: the upstream call of a request is not issued while a request that
\* arrived before it still waits for its own first upstream call.
C23_IssuedInArrivalOrder ==
    [][\A d \in Issued(uc') \ Issued(uc) :
         \A c \in DOMAIN uc'.tools :
             uc'.tools[c].pc = "connect1"
                 => uc'.tools[c].seq > uc'.tools[d].seq]_vars

\* The transports tried on an address that is decided by its ending: only
\* the streaming one when `mcp`, only the push stream when `sse`.
DecidedByEnding(mcp, sse) ==
    /\ mcp => uc.tried = <<"StreamableHTTP">>
    /\ (~mcp /\ sse) => uc.tried = <<"SSE">>

C25_HealthzTouchesNothing ==
    /\ [](ENABLED healthz)
    /\ [](health.when # "never" => health.status = 200)
    /\ [][health' # health => /\ UNCHANGED <<httpVars, clientVars>>
                              /\ UNCHANGED <<handler, announced, rpc,
                                             moreVars>>]_vars

\* /healthz was answered while the client was reconnecting after a
\* heartbeat failure, with a session open.
C25_Witness ==
    /\ health.status = 200
    /\ health.when = "reconnecting"
    /\ uc.reconnecting
    /\ uc.cause = "heartbeat"
    /\ sessions # {}

\* The path of the request the last openSession got.
AnnouncedPath == splitFirst(announced.req.originalUrl, "?")

\* C26: with no static prefix and no forwarding header, a stream opened on a
\* path that ends with /sse gets the part of the path before /sse as its
\* prefix, and <prefix>/messages is announced as its submission address.
C26_PrefixBeforeSse ==
    (/\ announced # <<>>
     /\ announced.req.staticPrefix = <<>>
     /\ announced.req.xForwardedPrefix = <<>>
     /\ announced.req.xForwardedUri = <<>>
     /\ endsWith(AnnouncedPath, <<"/", "sse">>))
        => LET before == SubSeq(AnnouncedPath, 1, Len(AnnouncedPath) - 2)
           IN  /\ announced.prefix = before
               /\ announced.endpoint = before \o <<"/", "messages">>

\* C27: the failures counted towards a heartbeat reconnect are failures of
\* probes of the connection the client holds: none of a probe that was sent
\* on an earlier connection is in the count.
C27_OnlyCurrentProbesCount ==
    uc.client # NoConn => uc.counted \subseteq {uc.client}

\* C28: at most one heartbeat interval is running, and none while the client
\* holds no connection.
C28_OneHeartbeatTimer ==
    /\ Cardinality(uc.timers) <= 1
    /\ uc.client = NoConn => uc.timers = {}

\* A step in which a call of connect() returns a client: to
\* createUpstreamClient, to scheduleReconnect, or to a callTool(), which then
\* issues an upstream call.
ConnectReturns ==
    \/ ~uc.ready /\ uc'.ready
    \/ /\ "bg" \in DOMAIN uc.loops
       /\ "bg" \notin DOMAIN uc'.loops
       /\ uc'.orphaned = uc.orphaned
    \/ Issued(uc') # Issued(uc)
    \/ \E c \in DOMAIN uc.tools : uc'.tools[c].tries > uc.tools[c].tries

\* C29: the retry counter is 0 in every state a successful completion of
\* connect() leads to.
C29_AttemptZeroAfterConnect ==
    [][ConnectReturns => uc'.attempt = 0]_vars

\* C30: in the JSON-RPC client every issued request id belongs to one
\* request and has at most one pending entry, that request's; the entry is
\* there exactly until the first of a response carrying the id and the
\* request's timeout; that first event alone decides what the caller gets,
\* and a later event for the request changes neither the pending map nor
\* the request.
C30_FirstEventTakesEntry ==
    /\ [](/\ \A r \in DOMAIN rpc.requests :
                LET q   == rpc.requests[r]
                    key == KeyOf(rpc, r)
                IN /\ Addressed(rpc, key) = {r}
                   /\ (key \in DOMAIN rpc.pending) <=> (q.events = <<>>)
                   /\ key \in DOMAIN rpc.pending => rpc.pending[key] = r
                   /\ (q.promise = "pending") <=> (q.events = <<>>)
                   /\ q.promise = "resolved" => Head(q.events) = "response"
                   /\ q.promise = "rejected" => Head(q.events) = "timeout"
                   /\ q.pc = "returned" => q.promise = "resolved"
                   /\ q.error = "timeout" => q.promise = "rejected"
          /\ \A key \in DOMAIN rpc.pending : Addressed(rpc, key) # {})
    /\ [][\A r \in DOMAIN rpc.requests :
              (/\ rpc.requests[r].events # <<>>
               /\ rpc'.requests[r].events # rpc.requests[r].events)
                  => /\ rpc'.pending = rpc.pending
                     /\ rpc'.requests[r] =
                            [rpc.requests[r] EXCEPT
                                !.events = rpc'.requests[r].events]]_vars

\* The timeout of a request fired, its caller got the timeout error, and
\* then a response with its id came in.
C30_Witness ==
    \E r \in DOMAIN rpc.requests :
        /\ rpc.requests[r].events = <<"timeout", "response">>
        /\ rpc.requests[r].pc = "threw"
        /\ rpc.requests[r].error = "timeout"
        /\ KeyOf(rpc, r) \notin DOMAIN rpc.pending
        /\ rpc.pending # <<>>

\* C32: the idle-close timer of the HTTP server is armed only while the
\* session registry is empty.
C32_ArmedOnlyWhenEmpty == idleTimer => sessions = {}

\* Every stream of the run has been opened and has closed, and the timer
\* the last close armed is running.
C32_Witness ==
    /\ idleTimer
    /\ sessions = {}
    /\ issued = MaxSessions
    /\ streams = {}

\* C33: a close or error event of a transport that is not the client's
\* current transport leaves the current connection in place and starts no
\* reconnect.
C33_StaleEventsIgnored ==
    [][\A k \in 1..MaxConns, closing \in BOOLEAN :
          (k # uc.transport
           /\ ucTransportEventWithin(k, closing, MaxConns + 1))
              => /\ uc'.client = uc.client
                 /\ uc'.transport = uc.transport
                 /\ uc'.reconnecting = uc.reconnecting
                 /\ DOMAIN uc'.loops = DOMAIN uc.loops]_vars

\* C34: a background reconnect that ends with the closed-client error is
\* handled inside the client: no promise of a background connect() rejects
\* with nothing attached to take the rejection.
C34_BackgroundFailureHandled == uc.closed => uc.orphaned = 0

\* C39: the transparent shim hands a POST /messages to the transport of a
\* session only when the request names that session in `sessionId` or
\* `session_id`; a request naming no session or an unknown one goes to no
\* session.
C39_DispatchedOnlyWhereNamed ==
    shim.post.to # ""
        => shim.post.to \in {shim.post.sessionId, shim.post.session_id}

\* The used states: those a callback has passed the validation with.
UsedStates == DOMAIN oauth.passed

\* C40 as stated: a state passes the validation of the callback at most
\* once and only when the login handler gave it out; a callback with a used
\* state is answered invalid_state; a callback with a state never given out
\* is answered 400.
C40_StateAcceptedOnce ==
    /\ [](\A s \in UsedStates : oauth.passed[s] <= 1 /\ s \in oauth.issued)
    /\ [][\A state \in CallbackStates, code \in BOOLEAN, error \in BOOLEAN :
              oauthCallbackHandler(state, code, error)
                  => /\ state \in UsedStates
                         => /\ oauth'.last.status = 400
                            /\ oauth'.last.body = "invalid_state"
                     /\ state \notin oauth.issued
                         => oauth'.last.status = 400]_vars

\* C40, amended: as above, but a callback with a used state that carries an
\* `error` parameter is answered 400 with that error, any other
\* invalid_state.
C40_StateAcceptedOnceOrError ==
    /\ [](\A s \in UsedStates : oauth.passed[s] <= 1 /\ s \in oauth.issued)
    /\ [][\A state \in CallbackStates, code \in BOOLEAN, error \in BOOLEAN :
              oauthCallbackHandler(state, code, error)
                  => /\ state \in UsedStates
                         => /\ oauth'.last.status = 400
                            /\ oauth'.last.body =
                                   IF error THEN "error" ELSE "invalid_state"
                     /\ state \notin oauth.issued
                         => oauth'.last.status = 400]_vars

\* A state was used, its token exchange went through, and a second callback
\* with the same state and a code was answered invalid_state.
C40_Witness ==
    /\ oauth.last.answered
    /\ oauth.last.state \in UsedStates
    /\ oauth.last.code
    /\ ~oauth.last.error
    /\ oauth.last.body = "invalid_state"
    /\ \E x \in DOMAIN oauth.exchanges :
           /\ oauth.exchanges[x].state = oauth.last.state
           /\ x \in oauth.sessions

\* The requests whose promise the step resolves.
ResolvedNow ==
    {r \in DOMAIN rpc.requests :
        /\ rpc.requests[r].promise = "pending"
        /\ rpc'.requests[r].promise = "resolved"}

\* The requests whose id is the `id` of the message: the same number.
SameId(payload) ==
    {r \in DOMAIN rpc.requests :
        payload.parses /\ payload.id = NumberId(rpc.requests[r].id)}

\* The requests whose id and the `id` of the message are written alike by
\* String().
SameIdAsString(payload) ==
    {r \in DOMAIN rpc.requests :
        /\ payload.parses
        /\ payload.id.type # "undefined"
        /\ String(payload.id) = KeyOf(rpc, r)}

\* No two requests of the client have the same id, whatever stream was open
\* when they were sent.
IdsNeverReused ==
    \A r1, r2 \in DOMAIN rpc.requests :
        r1 # r2 => rpc.requests[r1].id # rpc.requests[r2].id

\* C31 as stated: ids are never reused; a message read from the stream
\* resolves only the pending request whose id is the message's id, and
\* leaves every other pending entry alone; a message whose id is that of no
\* request, or that has none, resolves nothing and leaves the pending map as
\* it is.
C31_ResolvesOnlyEqualId ==
    /\ []IdsNeverReused
    /\ [][\A payload \in Payloads :
              dispatchJsonRpc(payload)
                  => /\ ResolvedNow \subseteq SameId(payload)
                     /\ \A r \in DOMAIN rpc.requests \ SameId(payload) :
                            KeyOf(rpc, r) \in DOMAIN rpc.pending
                                => KeyOf(rpc, r) \in DOMAIN rpc'.pending
                     /\ SameId(payload) = {}
                            => rpc'.pending = rpc.pending]_vars

\* C31, amended: the same with ids compared in the form String() writes
\* them in, so that the string "1" is the id of request 1.
C31_ResolvesOnlyEqualKey ==
    /\ []IdsNeverReused
    /\ [][\A payload \in Payloads :
              dispatchJsonRpc(payload)
                  => /\ ResolvedNow \subseteq SameIdAsString(payload)
                     /\ \A r \in DOMAIN rpc.requests
                                 \ SameIdAsString(payload) :
                            KeyOf(rpc, r) \in DOMAIN rpc.pending
                                => KeyOf(rpc, r) \in DOMAIN rpc'.pending
                     /\ SameIdAsString(payload) = {}
                            => rpc'.pending = rpc.pending]_vars

\* A request sent on the first stream is still pending while one sent on
\* the second stream, after a new connect attempt, has been resolved by a
\* message.
C31_Witness ==
    \E r1, r2 \in DOMAIN rpc.requests :
        /\ rpc.requests[r1].stream = 1
        /\ rpc.requests[r2].stream = 2
        /\ rpc.requests[r1].promise = "pending"
        /\ KeyOf(rpc, r1) \in DOMAIN rpc.pending
        /\ rpc.requests[r2].promise = "resolved"
        /\ rpc.requests[r2].events = <<"response">>

\* The connect loops that have not ended.
RunningLoops(o) == {l \in DOMAIN o.loops : o.loops[l].pc # "done"}

\* C35: at most one connect loop runs, and connectPromise holds it exactly
\* while it runs; a caller of connectIfNeeded() waits exactly while the
\* loop whose promise it got runs; a call made while the client is not
\* connected joins the running loop and starts none, and one made while
\* none runs, as after a disconnect, starts a new loop.
C35_OneSharedLoop ==
    /\ [](/\ Cardinality(RunningLoops(rpc)) <= 1
          /\ RunningLoops(rpc) =
                 IF rpc.connectPromise = 0 THEN {} ELSE {rpc.connectPromise}
          /\ \A c \in DOMAIN rpc.callers :
                 (rpc.callers[c].pc = "waiting")
                     <=> (rpc.callers[c].loop \in RunningLoops(rpc)))
    /\ [][(connectIfNeeded /\ ~rpc.connected)
              => LET c == Len(rpc'.callers)
                 IN IF RunningLoops(rpc) # {}
                    THEN /\ Len(rpc'.loops) = Len(rpc.loops)
                         /\ rpc'.callers[c].loop \in RunningLoops(rpc)
                    ELSE /\ Len(rpc'.loops) = Len(rpc.loops) + 1
                         /\ rpc'.callers[c].loop = Len(rpc'.loops)
                         /\ RunningLoops(rpc') = {Len(rpc'.loops)}]_vars

\* Two overlapping calls shared the first loop and completed with it; the
\* stream ended later and a third call started a second loop.
C35_Witness ==
    /\ Len(rpc.callers) = 3
    /\ rpc.callers[1] = [loop |-> 1, pc |-> "done"]
    /\ rpc.callers[2] = [loop |-> 1, pc |-> "done"]
    /\ rpc.callers[3] = [loop |-> 2, pc |-> "waiting"]
    /\ rpc.loops[1].pc = "done"
    /\ rpc.connectPromise = 2
    /\ ~rpc.connected

\* The connect loop that succeeded last.
LastSucceeded(o) ==
    {l \in DOMAIN o.loops :
        /\ o.loops[l].pc = "done"
        /\ \A m \in DOMAIN o.loops : o.loops[m].pc = "done" => m <= l}

\* C36: isConnected() is true only while the stream opened by the last
\* successful connect attempt is being read, and it turns true only when a
\* connect attempt succeeds.
C36_ConnectedWhileReading ==
    /\ [](rpc.connected
            => \E l \in LastSucceeded(rpc) :
                   rpc.streams[rpc.loops[l].stream] = "reading")
    /\ [][(~rpc.connected /\ rpc'.connected)
              => LastSucceeded(rpc') # LastSucceeded(rpc)]_vars

\* C37: every request is POSTed to the submission address announced on the
\* stream its connect attempt opened: the latest stream the client had
\* asked for when the request was sent.
C37_AddressOfOwnStream ==
    \A r \in DOMAIN rpc.requests :
        rpc.requests[r].to = rpc.requests[r].stream

\* C38: a request whose POST failed has thrown, has no entry in the pending
\* map and no armed timer, and its promise is not rejected with nothing
\* waiting for it.
C38_FailedPostLeavesNothing ==
    \A r \in DOMAIN rpc.requests :
        rpc.requests[r].error = "fetch"
            => /\ rpc.requests[r].pc = "threw"
               /\ KeyOf(rpc, r) \notin DOMAIN rpc.pending
               /\ r \notin rpc.timers
               /\ ~rpc.requests[r].unobserved

====
